---------------------------- MODULE Spec2Model ----------------------------
(***************************************************************************)
(* Model of the CuboAI Home-Assistant integration: the Token Store         *)
(* (api/cuboai_functions.py), the Token Refresher and the polling sensors  *)
(* (sensor.py) and the hand-over of the login's tokens (config_flow.py).   *)
(*                                                                         *)
(* The specifications share the variables:                                 *)
(*   SpecStore      the Token Store alone, from every state of the two      *)
(*                  locations;                                              *)
(*   Spec           a login followed by the poll cycles of the sensors;     *)
(*   SpecWrite      _atomic_write step by step, by concurrent threads;      *)
(*   SpecAuth       the authentication functions;                           *)
(*   SpecLogin      the config flow;                                        *)
(*   SpecAlerts     get_n_alerts_paged against the vendor's timeline;       *)
(*   SpecNormalize  _normalize_alert;                                       *)
(*   SpecImages     the image downloads and the cleanup of a poll cycle;    *)
(*   SpecLastAlert  the image paths the last-alert sensor lists;            *)
(*   SpecCameras    get_camera_profiles;                                    *)
(*   SpecSetup      the sensors the config entries set up;                  *)
(*   SpecTwin       the blocking and the async paginator side by side.      *)
(***************************************************************************)
EXTENDS Integers, Sequences, FiniteSets, TLC

VARIABLES
    ACCESS_TOKEN_FILE,    \* module global: the portable access path, or NoPath
    REFRESH_TOKEN_FILE,   \* module global: the portable refresh path, or NoPath
    fs,                   \* the file system: path -> content
    op,                   \* SpecStore: the last Token Store call and its result
    entry,                \* the config entry's data: <<access_token, refresh_token>>
    minted,               \* vendor: number of the last credential pair it issued
    responses,             \* history: the pairs token refreshes have returned
    polls,                \* poll cycles started so far
    sn,                   \* the sensor objects, their position in async_update included
    wr,                   \* SpecWrite: the threads inside save_access_token / save_refresh_token
    flow,                 \* SpecLogin: the config flow, its position and what it holds
    api,                  \* SpecAuth: a call of an authentication function and what it gave
    pg,                   \* SpecAlerts: a call of get_n_alerts_paged and the vendor's timeline
    na,                   \* SpecNormalize: a call of _normalize_alert
    img,                  \* SpecImages: the image directory and the last-alert sensor's cycle
    cam,                  \* SpecCameras: a call of get_camera_profiles
    reg,                  \* SpecSetup: the config entries set up and their sensors
    apg                   \* SpecTwin: a call of the async get_n_alerts_paged

storeVars == <<ACCESS_TOKEN_FILE, REFRESH_TOKEN_FILE, fs>>
pollVars == <<entry, minted, responses, polls, sn>>
moreVars == <<reg, apg>>
dataVars == <<pg, na, img, cam, moreVars>>
otherVars == <<wr, flow, api, dataVars>>
vars ==
    <<ACCESS_TOKEN_FILE, REFRESH_TOKEN_FILE, fs, op, entry, minted, responses, polls, sn,
      wr, flow, api, pg, na, img, cam, reg, apg>>

-----------------------------------------------------------------------------
(* Bounds *)

\* Distinct token values a save is tried with (SpecStore).
MaxToken == 2

\* Poll cycles started in one run, over all sensors (Spec).
MaxPolls == 2

-----------------------------------------------------------------------------
(* Token Store: api/cuboai_functions.py *)

\* Python's None as a token value; tokens are 1, 2, ...
None == 0

\* ACCESS_TOKEN_FILE = None / REFRESH_TOKEN_FILE = None
NoPath == "none"

LEGACY_ACCESS_TOKEN_FILE == "/config/cuboai_access_token.json"
LEGACY_REFRESH_TOKEN_FILE == "/config/cuboai_refresh_token.json"

\* os.path.join(config_path, "cuboai_access_token.json")
PortableAccessPath == "<config>/cuboai_access_token.json"
PortableRefreshPath == "<config>/cuboai_refresh_token.json"

Kinds == {"access_token", "refresh_token"}

TokenPaths ==
    {PortableAccessPath, PortableRefreshPath,
     LEGACY_ACCESS_TOKEN_FILE, LEGACY_REFRESH_TOKEN_FILE}

\* f"{path}.tmp"
TmpOf(path) ==
    CASE path = PortableAccessPath -> "<config>/cuboai_access_token.json.tmp"
      [] path = PortableRefreshPath -> "<config>/cuboai_refresh_token.json.tmp"
      [] path = LEGACY_ACCESS_TOKEN_FILE -> "/config/cuboai_access_token.json.tmp"
      [] path = LEGACY_REFRESH_TOKEN_FILE -> "/config/cuboai_refresh_token.json.tmp"

AllPaths == TokenPaths \cup {TmpOf(p) : p \in TokenPaths}

\* A file's content: <<>> no such file, <<key, value>> the JSON document
\* {key: value}, <<"{">> text that is no JSON document, <<"[", "]">> a JSON
\* document that is no object, <<"EACCES">> a file that open() may not read,
\* <<"">> a file of length 0.
Absent == <<>>
Malformed == <<"{">>
NotObject == <<"[", "]">>
Unreadable == <<"EACCES">>
Empty == <<"">>
json_dumps(key, value) == <<key, value>>

\* What a call gives back when an exception leaves it.
Raised == -1

\* except Exception: the classes it catches (all that the calls raise).
IsException(exc) ==
    exc \in {"HTTPError", "ConnectionError", "TypeError", "OSError",
             "FileNotFoundError", "PermissionError", "JSONDecodeError",
             "AttributeError"}

Exists(f, path) == path # NoPath /\ f[path] # Absent

\* set_token_paths: both globals are set from the config directory.
set_token_paths ==
    /\ ACCESS_TOKEN_FILE' = PortableAccessPath
    /\ REFRESH_TOKEN_FILE' = PortableRefreshPath

\* A resolution that returns the portable path whenever one is configured.
get_access_token_path_portable_first(portable, f) ==
    IF portable # NoPath THEN portable ELSE LEGACY_ACCESS_TOKEN_FILE

\* _get_access_token_path, given the global and the file system
get_access_token_path(portable, f) ==
    IF portable # NoPath /\ Exists(f, portable) THEN portable
    ELSE IF Exists(f, LEGACY_ACCESS_TOKEN_FILE) THEN LEGACY_ACCESS_TOKEN_FILE
    ELSE IF portable # NoPath THEN portable
    ELSE LEGACY_ACCESS_TOKEN_FILE

\* _get_refresh_token_path
get_refresh_token_path(portable, f) ==
    IF portable # NoPath /\ Exists(f, portable) THEN portable
    ELSE IF Exists(f, LEGACY_REFRESH_TOKEN_FILE) THEN LEGACY_REFRESH_TOKEN_FILE
    ELSE IF portable # NoPath THEN portable
    ELSE LEGACY_REFRESH_TOKEN_FILE

\* A write that stops before os.replace: the temp file is left, the target is not touched.
atomic_write_no_replace(f, path, payload) ==
    [f EXCEPT ![TmpOf(path)] = payload]

\* _atomic_write: write the payload to path.tmp, then os.replace(tmp, path)
atomic_write(f, path, payload) ==
    LET written == [f EXCEPT ![TmpOf(path)] = payload]
    IN  [written EXCEPT ![path] = written[TmpOf(path)], ![TmpOf(path)] = Absent]

\* save_access_token: the file system after the call
save_access_token(portable, f, access_token) ==
    atomic_write(f, get_access_token_path(portable, f),
                 json_dumps("access_token", access_token))

\* save_refresh_token
save_refresh_token(portable, f, refresh_token) ==
    atomic_write(f, get_refresh_token_path(portable, f),
                 json_dumps("refresh_token", refresh_token))

\* The body of the try: open(path), json.load(f), data.get(key). What it
\* raises, or "none" and the value it returns.
try_read_token(f, path, key) ==
    IF f[path] = Absent THEN [exc |-> "FileNotFoundError", value |-> None]
    ELSE IF f[path] = Unreadable THEN [exc |-> "PermissionError", value |-> None]
    ELSE IF f[path] \in {Malformed, Empty}
        THEN [exc |-> "JSONDecodeError", value |-> None]
    ELSE IF f[path] = NotObject THEN [exc |-> "AttributeError", value |-> None]
    ELSE IF f[path][1] = key THEN [exc |-> "none", value |-> f[path][2]]
    ELSE [exc |-> "none", value |-> None]

\* A load whose handler is "except FileNotFoundError".
read_token_missing_only(f, path, key) ==
    LET r == try_read_token(f, path, key)
    IN  IF r.exc = "none" THEN r.value
        ELSE IF r.exc = "FileNotFoundError" THEN None
        ELSE Raised

\* try: ... except Exception: return None
read_token(f, path, key) ==
    LET r == try_read_token(f, path, key)
    IN  IF r.exc = "none" THEN r.value
        ELSE IF IsException(r.exc) THEN None
        ELSE Raised

\* load_access_token
load_access_token(portable, f) ==
    read_token(f, get_access_token_path(portable, f), "access_token")

\* load_refresh_token
load_refresh_token(portable, f) ==
    read_token(f, get_refresh_token_path(portable, f), "refresh_token")

Save(kind, f, t) ==
    IF kind = "access_token" THEN save_access_token(ACCESS_TOKEN_FILE, f, t)
    ELSE save_refresh_token(REFRESH_TOKEN_FILE, f, t)

Load(kind, f) ==
    IF kind = "access_token" THEN load_access_token(ACCESS_TOKEN_FILE, f)
    ELSE load_refresh_token(REFRESH_TOKEN_FILE, f)

-----------------------------------------------------------------------------
(* Sensors: sensor.py *)

Sensors == {1, 2}

SensorTypes == {"baby_info", "last_alert", "subscription", "camera_state"}

\* The sensors that poll in a run: one sensor of any type alone (the other
\* slot is not used), or a last-alert and a camera-state sensor side by side.
NoSensor == "none"
SensorSetups ==
    {<<t, NoSensor>> : t \in SensorTypes} \cup {<<"last_alert", "camera_state">>}

\* The sensor object before the config entry is set up.
Unborn(type) ==
    [type |-> type, pc |-> "unborn",
     access |-> None, refresh |-> None,     \* self._access_token, self._refresh_token
     todo |-> {},                           \* executor jobs of a gather still to run
     resp |-> <<None, None>>,               \* what refresh_access_token_only returns
     state |-> "None", attributes |-> "{}", \* self._state, self._attributes
     fetches |-> 0, refreshes |-> 0,        \* this cycle: fetch calls, refresher calls
     errors |-> <<>>,                       \* this cycle: str(e) of each failed fetch
     rerr |-> <<>>,                         \* this cycle: str(e) of the failed refresh
     tok1 |-> None,                         \* this cycle: access token of the first fetch
     tok2 |-> None,                         \* this cycle: access token of the retry
     sent |-> None,                         \* this cycle: refresh token sent to the vendor
     interfered |-> FALSE,                  \* another sensor wrote the store since this
                                            \* cycle began or since its refresher call
     escaped |-> FALSE]                     \* an exception left async_update

\* The state of the poll variables while only the Token Store is exercised.
PollIdle ==
    /\ entry = <<None, None>>
    /\ minted = 1
    /\ responses = {}
    /\ polls = 0
    /\ sn = [s \in Sensors |-> Unborn("camera_state")]

\* The threads that save, while none of them is inside a save.
Writers == {1, 2}
IdleWriter == [pc |-> "idle", kind |-> "access_token", token |-> None,
               path |-> NoPath, at |-> "closed"]
WriteIdle == wr = [w \in Writers |-> IdleWriter]

\* A key a dict does not hold, an argument a call does not give.
Missing == "<missing>"

\* The config flow object before the user form is submitted.
NoFlow ==
    [pc |-> "idle",                          \* the call the handler is about to make
     form |-> "user",                        \* the form the flow shows
     state |-> "INIT",                       \* the state of the login attempt
     errors |-> "none",                      \* errors["base"] of the form shown
     error_str |-> <<>>,                     \* str(e) of the exception caught
     mfa_session |-> Missing,                \* self._mfa_session
     mfa_challenge |-> Missing,              \* self._mfa_challenge
     mfa_username |-> Missing,               \* self._mfa_username
     username |-> Missing,                   \* user_input["username"]
     mfa_code |-> Missing,                   \* the code of this submission
     mfa_sent |-> <<>>,                      \* Session of the MFA responses sent
     tokens |-> Missing,                     \* the provider's AuthenticationResult
     access_token |-> None,                  \* self._access_token
     refresh_token |-> None,                 \* self._refresh_token
     vendor_called |-> FALSE,                \* this attempt called cubo_mobile_login
     submits |-> 0]                          \* forms submitted so far
FlowIdle == flow = NoFlow

\* No request sent to the identity provider yet.
NoRequest == [kind |-> "none", USERNAME |-> Missing, SECRET_HASH |-> <<>>]

\* No call of an authentication function made yet.
NoCall ==
    [fn |-> "none",
     ChallengeName |-> Missing, Session |-> Missing, ChallengeParameters |-> Missing,
     AuthenticationResult |-> Missing,
     username |-> Missing, mfa_code |-> Missing, challenge_name |-> Missing,
     out |-> Missing,
     sent |-> NoRequest]                     \* the request the function sends
ApiIdle == api = NoCall

\* No call of get_n_alerts_paged made yet.
NoPager ==
    [pc |-> "idle",
     n |-> 0,                                \* the argument n
     server |-> "none",                      \* how the vendor answers: "honest" or "any"
     timeline |-> {},                        \* the alerts an honest vendor holds
     since_ts |-> 0, iters |-> 0, seen_progress |-> TRUE,
     data_len |-> 0,                         \* records of this batch gone through
     ts_max |-> 0,                           \* max of ts_list so far, 0 while empty
     all_alerts_for_device |-> <<>>,         \* the dict, in insertion order
     requests |-> 0,                         \* timeline requests made
     stalled |-> TRUE,                       \* every batch so far had a timestamp and
                                             \* none above the initial since
     repeated |-> FALSE,                     \* a batch began with an alert id that an
                                             \* earlier batch had brought
     error |-> "none",                       \* the exception that ended the call
     result |-> <<>>]                        \* the list returned

\* No call of _normalize_alert made yet.
NoNormalize == [pc |-> "idle", a |-> [id |-> None], out |-> [id |-> None]]

\* The image directory before the first poll cycle of the last-alert sensor.
NoImages ==
    [pc |-> "idle",
     dir |-> <<>>,                           \* the files, the last modified last
     download_images |-> TRUE,               \* self.download_images in this cycle
     got |-> 0,                              \* images this cycle has downloaded
     before |-> 0,                           \* files of the device before the last cleanup
     last |-> "none",                        \* how the last cycle ended
     max_alerts |-> 0,                       \* self.max_alerts: the option alerts_count
     count |-> 0,                            \* alerts the fetch of this cycle returned
     alert_dicts |-> <<>>,                   \* this cycle: local_image_path of each alert
     attributes |-> <<>>]                    \* self._attributes["alerts"], the image paths

\* No call of get_camera_profiles made yet.
NoCameras ==
    [pc |-> "idle",
     profiles |-> <<>>,                      \* data.get("profiles", [])
     device_map |-> {}]                      \* the items of the dict returned

\* No config entry set up yet.
NoRegistry == [entries |-> {}, sensors |-> <<>>]

MoreIdle ==
    /\ reg = NoRegistry
    /\ apg = NoPager

DataIdle ==
    /\ pg = NoPager
    /\ na = NoNormalize
    /\ img = NoImages
    /\ cam = NoCameras
    /\ MoreIdle

-----------------------------------------------------------------------------
(* SpecStore: the Token Store under every state of the two locations *)

TokenValues == 0..MaxToken

Contents ==
    {Absent, Malformed, NotObject, Unreadable}
    \cup {json_dumps(k, t) : k \in Kinds, t \in {1}}

NoOp ==
    [name |-> "none", kind |-> "access_token", arg |-> None, result |-> None,
     path |-> NoPath]

\* The path a call of the kind resolves now.
PathOf(kind, f) ==
    IF kind = "access_token" THEN get_access_token_path(ACCESS_TOKEN_FILE, f)
    ELSE get_refresh_token_path(REFRESH_TOKEN_FILE, f)

StoreInit ==
    /\ ACCESS_TOKEN_FILE \in {NoPath, PortableAccessPath}
    /\ REFRESH_TOKEN_FILE \in {NoPath, PortableRefreshPath}
    /\ (ACCESS_TOKEN_FILE = NoPath) = (REFRESH_TOKEN_FILE = NoPath)
    /\ fs \in {f \in [AllPaths -> Contents] :
                 \A p \in TokenPaths : f[TmpOf(p)] = Absent}
    /\ op = NoOp
    /\ PollIdle
    /\ WriteIdle
    /\ FlowIdle
    /\ ApiIdle
    /\ DataIdle

\* async_setup / async_setup_entry call set_token_paths(hass.config.path())
StoreConfigure ==
    /\ set_token_paths
    /\ op' = [NoOp EXCEPT !.name = "configure"]
    /\ UNCHANGED <<otherVars, fs, pollVars>>

StoreSave ==
    \E kind \in Kinds, t \in TokenValues :
        /\ fs' = Save(kind, fs, t)
        /\ op' = [name |-> "save", kind |-> kind, arg |-> t, result |-> None,
                  path |-> PathOf(kind, fs)]
        /\ UNCHANGED <<otherVars, ACCESS_TOKEN_FILE, REFRESH_TOKEN_FILE, pollVars>>

StoreLoad ==
    \E kind \in Kinds :
        /\ op' = [name |-> "load", kind |-> kind, arg |-> None,
                  result |-> Load(kind, fs), path |-> PathOf(kind, fs)]
        /\ UNCHANGED <<otherVars, storeVars, pollVars>>

StoreNext == StoreConfigure \/ StoreSave \/ StoreLoad

SpecStore == StoreInit /\ [][StoreNext]_vars

-----------------------------------------------------------------------------
(* Error messages: str(e) as a sequence of words *)

M401 == <<"401", "Client", "Error:", "Unauthorized">>
MProvider == <<"Unauthorized">>
M500 == <<"500", "Server", "Error", "since=1730401234">>
MConnection == <<"Connection", "aborted">>
NoError == <<>>

FetchErrors == {M401, MProvider, M500, MConnection}
M400 == <<"400", "Client", "Error:", "Bad", "Request">>
RefreshErrors == {M400, M500}

\* The needles a word contains as a substring, besides itself.
Parts(word) ==
    IF word = "since=1730401234" THEN {word, "401"}
    ELSE IF word = "InvalidPasswordException" THEN {word, "Invalid"}
    ELSE IF word \in {"expiredcodeexception", "expired."} THEN {word, "expired"}
    ELSE {word}

\* needle in msg
in_str(needle, msg) == \E i \in 1..Len(msg) : needle \in Parts(msg[i])

lower_word(word) ==
    CASE word = "Unauthorized" -> "unauthorized"
      [] word = "Client" -> "client"
      [] word = "Server" -> "server"
      [] word = "Error:" -> "error:"
      [] word = "Error" -> "error"
      [] word = "Bad" -> "bad"
      [] word = "Request" -> "request"
      [] word = "Connection" -> "connection"
      [] word = "ExpiredCodeException" -> "expiredcodeexception"
      [] word = "Invalid" -> "invalid"
      [] word = "Session" -> "session"
      [] word = "Code" -> "code"
      [] OTHER -> word

\* str(e).lower()
str_lower(msg) == [i \in 1..Len(msg) |-> lower_word(msg[i])]

\* The test of the inner except clause: last_alert looks for "unauthorized",
\* the three others for "Unauthorized", in the lower-cased message.
is_auth_error(type, msg) ==
    \/ in_str("401", msg)
    \/ in_str(IF type = "last_alert" THEN "unauthorized" ELSE "Unauthorized",
              str_lower(msg))

\* The class of the exception a message belongs to.
ExceptionOf(msg) == IF msg = MConnection THEN "ConnectionError" ELSE "HTTPError"

-----------------------------------------------------------------------------
(* Poll cycles: Spec *)

\* CuboBaseSensor.__init__ from async_setup_entry: the entry's tokens.
NewSensor(type, tokens) ==
    [Unborn(type) EXCEPT !.pc = "idle", !.access = tokens[1], !.refresh = tokens[2]]

\* The token files an earlier session left: none, or the pair 1 at the
\* portable or at the legacy location.
EarlierSession(where) ==
    [p \in AllPaths |->
        IF where = "portable" /\ p = PortableAccessPath
            THEN json_dumps("access_token", 1)
        ELSE IF where = "portable" /\ p = PortableRefreshPath
            THEN json_dumps("refresh_token", 1)
        ELSE IF where = "legacy" /\ p = LEGACY_ACCESS_TOKEN_FILE
            THEN json_dumps("access_token", 1)
        ELSE IF where = "legacy" /\ p = LEGACY_REFRESH_TOKEN_FILE
            THEN json_dumps("refresh_token", 1)
        ELSE Absent]

Init ==
    /\ ACCESS_TOKEN_FILE = NoPath
    /\ REFRESH_TOKEN_FILE = NoPath
    /\ \E setup \in SensorSetups, where \in {"nowhere", "portable", "legacy"} :
         /\ setup[2] # NoSensor => where = "legacy"
         /\ sn = [s \in Sensors |-> Unborn(setup[s])]
         /\ fs = EarlierSession(where)
    /\ op = NoOp
    /\ entry = <<None, None>>
    /\ minted = 1
    /\ responses = {}
    /\ polls = 0
    /\ WriteIdle
    /\ FlowIdle
    /\ ApiIdle
    /\ DataIdle

\* The login's last steps and the entry's setup: cubo_mobile_login mints the
\* pair, async_create_entry stores it in the entry's data, async_setup_entry
\* sets the token paths and builds the sensors from the entry's data.
Login ==
    /\ entry = <<None, None>>
    /\ minted' = minted + 1
    /\ entry' = <<minted', minted'>>
    /\ set_token_paths
    /\ sn' = [s \in Sensors |->
                IF sn[s].type = NoSensor THEN sn[s] ELSE NewSensor(sn[s].type, entry')]
    /\ UNCHANGED <<otherVars, fs, op, responses, polls>>

\* What a store write by sensor s means to the others.
Disturb(s, f) ==
    [u \in Sensors |->
        IF u # s /\ f[u].pc \notin {"idle", "unborn"}
        THEN [f[u] EXCEPT !.interfered = TRUE] ELSE f[u]]

\* The scheduler calls async_update.
StartCycle(s) ==
    /\ sn[s].pc = "idle"
    /\ polls < MaxPolls
    /\ polls' = polls + 1
    /\ sn' = [sn EXCEPT ![s] = [@ EXCEPT !.pc = "load", !.todo = Kinds]]
    /\ UNCHANGED <<otherVars, storeVars, op, entry, minted, responses>>

\* A handler that keeps the in-memory copy whatever the store holds.
load_latest_token_keep(r, kind, f) == r

\* _load_latest_tokens, one of its two executor jobs: the loaded value
\* replaces the in-memory one when it is truthy.
load_latest_token(r, kind, f) ==
    LET latest == Load(kind, f)
    IN  IF latest = None THEN r
        ELSE IF kind = "access_token" THEN [r EXCEPT !.access = latest]
        ELSE [r EXCEPT !.refresh = latest]

LoadToken(s) ==
    /\ sn[s].pc \in {"load", "rload"}
    /\ \E kind \in sn[s].todo :
         LET r == load_latest_token(sn[s], kind, fs)
             left == sn[s].todo \ {kind}
         IN  sn' = [sn EXCEPT ![s] =
                      [r EXCEPT !.todo = left,
                                !.pc = IF left # {} THEN @
                                       ELSE IF @ = "load" THEN "fetch" ELSE "rcall"]]
    /\ UNCHANGED <<otherVars, storeVars, op, entry, minted, responses, polls>>

\* An outer handler that catches HTTP errors only.
outer_except_http_only(r, exc) ==
    IF exc = "HTTPError"
    THEN [r EXCEPT !.pc = "done", !.state = "Error", !.attributes = "{}"]
    ELSE [r EXCEPT !.pc = "done", !.escaped = TRUE]

\* An outer handler that leaves the state as it was.
outer_except_keep_state(r, exc) == [r EXCEPT !.pc = "done"]

\* The outer "except Exception" of async_update: the sensor's failure state.
outer_except(r, exc) ==
    IF ~IsException(exc) THEN [r EXCEPT !.pc = "done", !.escaped = TRUE]
    ELSE IF r.type = "baby_info"
        THEN [r EXCEPT !.pc = "done", !.attributes = "nulls"]
    ELSE IF r.type = "last_alert"
        THEN [r EXCEPT !.pc = "done", !.state = "Error", !.attributes = "alerts: []"]
    ELSE [r EXCEPT !.pc = "done", !.state = "Error", !.attributes = "{}"]

\* After the fetch: the state and the attributes from the data. Data the
\* code cannot read raises inside the outer try; a failed image download or
\* cleanup of the last-alert sensor is logged and changes no state.
process(r, data, image_ok) ==
    IF data = "bad" THEN outer_except(r, "TypeError")
    ELSE IF r.type = "baby_info"
        THEN [r EXCEPT !.pc = "done",
                       !.attributes = IF data = "data" THEN "profile" ELSE "nulls"]
    ELSE IF r.type = "last_alert"
        THEN IF data = "data"
             THEN [r EXCEPT !.pc = "done", !.state = "alert type",
                       !.attributes = IF image_ok THEN "alerts with images"
                                      ELSE "alerts without images"]
             ELSE [r EXCEPT !.pc = "done", !.state = "No alerts",
                            !.attributes = "alerts: []"]
    ELSE IF r.type = "subscription"
        THEN IF data = "data"
             THEN [r EXCEPT !.pc = "done", !.state = "status", !.attributes = "data"]
             ELSE [r EXCEPT !.pc = "done", !.state = "No subscription",
                            !.attributes = "{}"]
    ELSE IF data = "data"
        THEN [r EXCEPT !.pc = "done", !.state = "state", !.attributes = "data"]
        ELSE [r EXCEPT !.pc = "done", !.state = "Unknown", !.attributes = "{}"]

\* An inner handler that goes for a refresh after a failed retry too.
fetch_failed_again(r, msg) ==
    IF is_auth_error(r.type, msg)
    THEN [r EXCEPT !.pc = "rload", !.todo = Kinds]
    ELSE outer_except(r, ExceptionOf(msg))

\* The fetch raised msg: the inner except clause of the first fetch refreshes
\* on an authorization error and re-raises the rest; the retry is inside that
\* clause, so its exception goes to the outer one.
fetch_failed(r, msg) ==
    IF r.fetches = 1 /\ is_auth_error(r.type, msg)
    THEN [r EXCEPT !.pc = "rload", !.todo = Kinds]
    ELSE outer_except(r, ExceptionOf(msg))

\* The fetch of the sensor's type with self._access_token, first or retry.
Fetch(s) ==
    /\ sn[s].pc \in {"fetch", "retry"}
    /\ LET r == [sn[s] EXCEPT !.fetches = @ + 1,
                              !.tok1 = IF sn[s].fetches = 0 THEN sn[s].access ELSE @,
                              !.tok2 = IF sn[s].pc = "retry" THEN sn[s].access ELSE @]
       IN  \/ \E d \in {"data", "empty", "bad"}, image_ok \in BOOLEAN :
                sn' = [sn EXCEPT ![s] = process(r, d, image_ok)]
           \/ \E msg \in FetchErrors :
                sn' = [sn EXCEPT ![s] =
                         fetch_failed([r EXCEPT !.errors = Append(@, msg)], msg)]
    /\ UNCHANGED <<otherVars, storeVars, op, entry, minted, responses, polls>>

\* A refresher that sends the caller's token whatever the store holds.
disk_token_caller(refresh_token, f) == refresh_token

\* disk_token = load_refresh_token() or refresh_token
disk_token(refresh_token, f) ==
    IF Load("refresh_token", f) # None THEN Load("refresh_token", f)
    ELSE refresh_token

\* The refresh tokens refresh_access_token_only may return for an answer:
\* resp.get("refresh_token", disk_token), the answer holding a new refresh
\* token n or none. The answer without one is tried where a sensor polls alone.
new_refresh_tokens(n, disk) ==
    IF \E u \in Sensors : sn[u].type = NoSensor THEN {n, disk} ELSE {n}

\* refresh_access_token_only up to the vendor's answer, called by
\* _external_refresh_token with self._refresh_token: refresh_cubo_token raises
\* on a 4xx or 5xx; the answer holds a new access token and, usually, a new
\* refresh token.
RefreshCall(s) ==
    /\ sn[s].pc = "rcall"
    /\ LET tok == disk_token(sn[s].refresh, fs)
           r == [sn[s] EXCEPT !.refreshes = @ + 1, !.sent = tok, !.interfered = FALSE]
       IN  \/ /\ minted' = minted + 1
              /\ \E new_refresh \in new_refresh_tokens(minted', tok) :
                   /\ sn' = [sn EXCEPT ![s] =
                               [r EXCEPT !.pc = "rsave_access",
                                         !.resp = <<minted', new_refresh>>]]
                   /\ responses' = responses \cup {<<minted', new_refresh>>}
           \/ /\ \E msg \in RefreshErrors :
                   sn' = [sn EXCEPT ![s] =
                            outer_except([r EXCEPT !.rerr = msg], ExceptionOf(msg))]
              /\ UNCHANGED <<minted, responses>>
    /\ UNCHANGED <<otherVars, storeVars, op, entry, polls>>

\* refresh_access_token_only: save_access_token(access_token)
RefreshSaveAccess(s) ==
    /\ sn[s].pc = "rsave_access"
    /\ fs' = Save("access_token", fs, sn[s].resp[1])
    /\ sn' = Disturb(s, [sn EXCEPT ![s] = [@ EXCEPT !.pc = "rsave_refresh"]])
    /\ UNCHANGED <<otherVars, ACCESS_TOKEN_FILE, REFRESH_TOKEN_FILE, op, entry, minted,
                   responses, polls>>

\* A refresher that returns the pair without saving the refresh token.
RefreshReturnUnsaved(s) ==
    /\ sn[s].pc = "rsave_refresh"
    /\ sn' = [sn EXCEPT ![s] =
                 [@ EXCEPT !.pc = "xsave", !.todo = {"access_token"},
                           !.access = sn[s].resp[1], !.refresh = sn[s].resp[2]]]
    /\ UNCHANGED <<otherVars, storeVars, op, entry, minted, responses, polls>>

\* A handler that saves the pair and keeps the tokens the sensor holds.
RefreshSaveRefreshForget(s) ==
    /\ sn[s].pc = "rsave_refresh"
    /\ fs' = Save("refresh_token", fs, sn[s].resp[2])
    /\ sn' = Disturb(s, [sn EXCEPT ![s] = [@ EXCEPT !.pc = "xsave", !.todo = Kinds]])
    /\ UNCHANGED <<otherVars, ACCESS_TOKEN_FILE, REFRESH_TOKEN_FILE, op, entry, minted,
                   responses, polls>>

\* refresh_access_token_only: save_refresh_token(new_refresh_token) and the
\* return; _external_refresh_token takes the pair into the sensor.
RefreshSaveRefresh(s) ==
    /\ sn[s].pc = "rsave_refresh"
    /\ fs' = Save("refresh_token", fs, sn[s].resp[2])
    /\ sn' = Disturb(s, [sn EXCEPT ![s] =
                 [@ EXCEPT !.pc = "xsave", !.todo = Kinds,
                           !.access = sn[s].resp[1], !.refresh = sn[s].resp[2]]])
    /\ UNCHANGED <<otherVars, ACCESS_TOKEN_FILE, REFRESH_TOKEN_FILE, op, entry, minted,
                   responses, polls>>

\* _external_refresh_token: the gather of save_access_token and
\* save_refresh_token, one executor job at a time, in either order.
ExternalSave(s) ==
    /\ sn[s].pc = "xsave"
    /\ \E kind \in sn[s].todo :
         LET left == sn[s].todo \ {kind}
         IN  /\ fs' = Save(kind, fs, IF kind = "access_token" THEN sn[s].access
                                     ELSE sn[s].refresh)
             /\ sn' = Disturb(s, [sn EXCEPT ![s] =
                          [@ EXCEPT !.todo = left,
                                    !.pc = IF left = {} THEN "retry" ELSE @]])
    /\ UNCHANGED <<otherVars, ACCESS_TOKEN_FILE, REFRESH_TOKEN_FILE, op, entry, minted,
                   responses, polls>>

\* async_update returns to the scheduler.
Return(s) ==
    /\ sn[s].pc = "done"
    /\ sn' = [sn EXCEPT ![s] = [@ EXCEPT !.pc = "idle",
                 !.fetches = 0, !.refreshes = 0, !.errors = <<>>, !.rerr = NoError,
                 !.tok1 = None, !.tok2 = None,
                 !.sent = None, !.resp = <<None, None>>, !.interfered = FALSE]]
    /\ UNCHANGED <<otherVars, storeVars, op, entry, minted, responses, polls>>

Next ==
    \/ Login
    \/ \E s \in Sensors :
         \/ StartCycle(s)
         \/ LoadToken(s)
         \/ Fetch(s)
         \/ RefreshCall(s)
         \/ RefreshSaveAccess(s)
         \/ RefreshSaveRefresh(s)
         \/ ExternalSave(s)
         \/ Return(s)

Spec == Init /\ [][Next]_vars

-----------------------------------------------------------------------------
(* SpecWrite: _atomic_write step by step, by threads of the executor pool *)

\* The token values the threads save; the file holds token 1 before.
NewTokens == 2..(MaxToken + 1)

\* Tokens differ in length: token t is taken to be t characters long.
\* f.write at offset 0 of a file that holds old text: the new text, followed
\* by what is left of a longer old one.
write_over(old, payload) ==
    IF old \in {Empty, payload} THEN payload
    ELSE IF old \in {Malformed, NotObject, Unreadable} THEN Malformed
    ELSE IF old[2] > payload[2] THEN Malformed
    ELSE payload

WriteInit ==
    /\ ACCESS_TOKEN_FILE = PortableAccessPath
    /\ REFRESH_TOKEN_FILE = PortableRefreshPath
    /\ fs = EarlierSession("portable")
    /\ op = NoOp
    /\ PollIdle
    /\ WriteIdle
    /\ FlowIdle
    /\ ApiIdle
    /\ DataIdle

\* A thread enters save_access_token or save_refresh_token: the path is
\* resolved, the payload is made.
WriteStart(w) ==
    /\ wr[w].pc = "idle"
    /\ \E kind \in Kinds, t \in NewTokens :
         wr' = [wr EXCEPT ![w] = [pc |-> "open", kind |-> kind, token |-> t,
                                  path |-> PathOf(kind, fs), at |-> "closed"]]
    /\ UNCHANGED <<storeVars, op, pollVars, flow, api, dataVars>>

\* open(tmp, "w"): the temp file is created, or truncated when it is there.
WriteOpen(w) ==
    /\ wr[w].pc = "open"
    /\ fs' = [fs EXCEPT ![TmpOf(wr[w].path)] = Empty]
    /\ wr' = [wr EXCEPT ![w] = [@ EXCEPT !.pc = "write", !.at = "tmp"]]
    /\ UNCHANGED <<ACCESS_TOKEN_FILE, REFRESH_TOKEN_FILE, op, pollVars, flow, api, dataVars>>

\* f.write(payload) and the close of the with block: the text goes to the
\* file the handle is open on, under whatever name that file has by now.
WriteFlush(w) ==
    /\ wr[w].pc = "write"
    /\ LET payload == json_dumps(wr[w].kind, wr[w].token)
           name == IF wr[w].at = "tmp" THEN TmpOf(wr[w].path) ELSE wr[w].path
       IN  fs' = IF wr[w].at = "unlinked" THEN fs
                 ELSE [fs EXCEPT ![name] = write_over(@, payload)]
    /\ wr' = [wr EXCEPT ![w] = [@ EXCEPT !.pc = "replace", !.at = "closed"]]
    /\ UNCHANGED <<ACCESS_TOKEN_FILE, REFRESH_TOKEN_FILE, op, pollVars, flow, api, dataVars>>

\* The handles of the other threads after os.replace(tmp, path).
renamed(w, f, path) ==
    [u \in Writers |->
        IF u = w \/ f[u].path # path THEN f[u]
        ELSE IF f[u].at = "tmp" THEN [f[u] EXCEPT !.at = "path"]
        ELSE IF f[u].at = "path" THEN [f[u] EXCEPT !.at = "unlinked"]
        ELSE f[u]]

\* os.replace(tmp, path); with no temp file it raises FileNotFoundError,
\* which the except clause of the save logs.
WriteReplace(w) ==
    /\ wr[w].pc = "replace"
    /\ LET tmp == TmpOf(wr[w].path)
       IN  IF fs[tmp] = Absent
           THEN /\ fs' = fs
                /\ wr' = [wr EXCEPT ![w] = [@ EXCEPT !.pc = "failed"]]
           ELSE /\ fs' = [fs EXCEPT ![wr[w].path] = fs[tmp], ![tmp] = Absent]
                /\ wr' = renamed(w, [wr EXCEPT ![w] = [@ EXCEPT !.pc = "saved"]],
                                 wr[w].path)
    /\ UNCHANGED <<ACCESS_TOKEN_FILE, REFRESH_TOKEN_FILE, op, pollVars, flow, api, dataVars>>

\* The save returns to its caller.
WriteReturn(w) ==
    /\ wr[w].pc \in {"saved", "failed"}
    /\ wr' = [wr EXCEPT ![w] = IdleWriter]
    /\ UNCHANGED <<storeVars, op, pollVars, flow, api, dataVars>>

\* The thread dies inside _atomic_write, its handle closed unwritten.
WriteCrash(w) ==
    /\ wr[w].pc \in {"open", "write", "replace"}
    /\ wr' = [wr EXCEPT ![w] = [@ EXCEPT !.pc = "crashed", !.at = "closed"]]
    /\ UNCHANGED <<storeVars, op, pollVars, flow, api, dataVars>>

\* load_access_token / load_refresh_token by a reader, at any moment.
WriteLoad ==
    \E kind \in Kinds :
        /\ op' = [name |-> "load", kind |-> kind, arg |-> None,
                  result |-> Load(kind, fs), path |-> PathOf(kind, fs)]
        /\ UNCHANGED <<storeVars, pollVars, otherVars>>

WriteNext ==
    \/ WriteLoad
    \/ \E w \in Writers :
         \/ WriteStart(w)
         \/ WriteOpen(w)
         \/ WriteFlush(w)
         \/ WriteReplace(w)
         \/ WriteReturn(w)
         \/ WriteCrash(w)

SpecWrite == WriteInit /\ [][WriteNext]_vars

-----------------------------------------------------------------------------
(* Authentication functions: api/cuboai_functions.py *)

\* config_flow.py: CLIENT_ID, CLIENT_SECRET
CLIENT_ID == "1gvbkmngl920rtp6hlbp6057ue"
CLIENT_SECRET == "1ot7h8m3t83g0g4b7ais7ilcf12o44cvr9cbgad0t90kcpno56jr"

\* get_secret_hash: the HMAC-SHA256 of username + client_id under client_secret
get_secret_hash(username, client_id, client_secret) ==
    <<"hmac-sha256", client_secret, username, client_id>>

\* A function that returns the authentication result whatever the answer holds.
respond_to_password_verifier_tokens_only(result, username) ==
    [challenge |-> Missing, session |-> Missing, challenge_params |-> Missing,
     username |-> Missing, tokens |-> result.AuthenticationResult]

\* respond_to_password_verifier, from the provider's answer to the
\* PASSWORD_VERIFIER response: a dict with the key "challenge" when the answer
\* holds "ChallengeName", the AuthenticationResult otherwise.
respond_to_password_verifier(result, username) ==
    IF result.ChallengeName # Missing
    THEN [challenge |-> result.ChallengeName,
          session |-> result.Session,
          challenge_params |-> IF result.ChallengeParameters # Missing
                               THEN result.ChallengeParameters ELSE "{}",
          username |-> username,
          tokens |-> Missing]
    ELSE [challenge |-> Missing, session |-> Missing, challenge_params |-> Missing,
          username |-> Missing, tokens |-> result.AuthenticationResult]

\* A function that submits every code under SMS_MFA_CODE.
respond_to_mfa_challenge_sms_only(session, username, mfa_code, challenge_name_arg) ==
    [ChallengeName |-> IF challenge_name_arg = Missing THEN "SMS_MFA"
                       ELSE challenge_name_arg,
     Session |-> session, USERNAME |-> username,
     SECRET_HASH |-> get_secret_hash(username, CLIENT_ID, CLIENT_SECRET),
     code_field |-> "SMS_MFA_CODE", code |-> mfa_code]

\* respond_to_mfa_challenge: the request it sends to the provider; the
\* challenge_name parameter has the default "SMS_MFA".
respond_to_mfa_challenge(session, username, mfa_code, challenge_name_arg) ==
    LET challenge_name == IF challenge_name_arg = Missing THEN "SMS_MFA"
                          ELSE challenge_name_arg
    IN  [ChallengeName |-> challenge_name,
         Session |-> session, USERNAME |-> username,
         SECRET_HASH |-> get_secret_hash(username, CLIENT_ID, CLIENT_SECRET),
         code_field |-> IF challenge_name = "SOFTWARE_TOKEN_MFA"
                        THEN "SOFTWARE_TOKEN_MFA_CODE" ELSE "SMS_MFA_CODE",
         code |-> mfa_code]

\* AWSSRP.get_auth_params of warrant 0.6.1 for an object made without a
\* client secret: USERNAME is the name the object was made with (SRP_A left out).
get_auth_params(aws) ==
    [kind |-> "InitiateAuth", USERNAME |-> aws.username, SECRET_HASH |-> <<>>]

\* AWSSRP.process_challenge of warrant 0.6.1 for an object made without a
\* client secret: USERNAME is USER_ID_FOR_SRP of the challenge (the password
\* claim left out).
process_challenge(aws, challenge_params) ==
    [kind |-> "PASSWORD_VERIFIER", USERNAME |-> challenge_params.USER_ID_FOR_SRP,
     SECRET_HASH |-> <<>>]

\* initiate_user_srp_auth: the AuthParameters of InitiateAuth
initiate_user_srp_auth(username) ==
    LET aws == [username |-> username]
        auth_params == get_auth_params(aws)
    IN  [auth_params EXCEPT
           !.SECRET_HASH = get_secret_hash(username, CLIENT_ID, CLIENT_SECRET)]

\* Challenge responses whose hash is made from the name typed at the login.
password_verifier_responses_login_name(aws, challenge_params) ==
    [process_challenge(aws, challenge_params) EXCEPT
       !.SECRET_HASH = get_secret_hash(aws.username, CLIENT_ID, CLIENT_SECRET)]

\* respond_to_password_verifier: the ChallengeResponses of the
\* PASSWORD_VERIFIER response
password_verifier_responses(aws, challenge_params) ==
    LET challenge_responses == process_challenge(aws, challenge_params)
        username == challenge_params.USER_ID_FOR_SRP
    IN  [challenge_responses EXCEPT
           !.SECRET_HASH = get_secret_hash(username, CLIENT_ID, CLIENT_SECRET)]

\* respond_to_mfa_challenge: USERNAME and SECRET_HASH of its ChallengeResponses
mfa_responses(request) ==
    [kind |-> "MFA", USERNAME |-> request.USERNAME, SECRET_HASH |-> request.SECRET_HASH]

-----------------------------------------------------------------------------
(* SpecAuth: the authentication functions on every input *)

SessionTokens == {"session-1", "session-2", "session-3"}
Usernames == {"user-1", "user-2"}
MfaCodes == {"654321", "000000", " 654321 "}
ChallengeNames == {"SMS_MFA", "SOFTWARE_TOKEN_MFA", "SELECT_MFA_TYPE"}
CognitoTokens == {"cognito-tokens-1", "cognito-tokens-2"}

\* The provider's answers to the PASSWORD_VERIFIER response: a further
\* challenge with its session, or the authentication result.
VerifierAnswers ==
    {[ChallengeName |-> c, Session |-> sess, ChallengeParameters |-> cp,
      AuthenticationResult |-> Missing] :
        c \in ChallengeNames, sess \in SessionTokens, cp \in {Missing, "{...}"}}
    \cup {[ChallengeName |-> Missing, Session |-> Missing,
           ChallengeParameters |-> Missing, AuthenticationResult |-> t] :
        t \in CognitoTokens}

AuthInit ==
    /\ ACCESS_TOKEN_FILE = NoPath
    /\ REFRESH_TOKEN_FILE = NoPath
    /\ fs = EarlierSession("nowhere")
    /\ op = NoOp
    /\ PollIdle
    /\ WriteIdle
    /\ FlowIdle
    /\ ApiIdle
    /\ DataIdle

\* initiate_user_srp_auth(username, ...)
AuthInitiate ==
    \E username \in Usernames :
        /\ api' = [NoCall EXCEPT
                     !.fn = "initiate_user_srp_auth",
                     !.username = username,
                     !.sent = initiate_user_srp_auth(username)]
        /\ UNCHANGED <<storeVars, op, pollVars, wr, flow, dataVars>>

\* respond_to_password_verifier(resp, aws, ...): aws was made with the name
\* typed at the login, the challenge names the user in USER_ID_FOR_SRP.
AuthPasswordVerifier ==
    \E result \in VerifierAnswers, username \in Usernames, login \in Usernames :
        /\ api' = [NoCall EXCEPT
                     !.fn = "respond_to_password_verifier",
                     !.sent = password_verifier_responses(
                                  [username |-> login], [USER_ID_FOR_SRP |-> username]),
                     !.ChallengeName = result.ChallengeName,
                     !.Session = result.Session,
                     !.ChallengeParameters = result.ChallengeParameters,
                     !.AuthenticationResult = result.AuthenticationResult,
                     !.username = username,
                     !.out = respond_to_password_verifier(result, username)]
        /\ UNCHANGED <<storeVars, op, pollVars, wr, flow, dataVars>>

AuthMfaChallenge ==
    \E session \in SessionTokens, username \in Usernames, mfa_code \in MfaCodes,
       challenge_name \in ChallengeNames \cup {Missing} :
        /\ api' = [NoCall EXCEPT
                     !.fn = "respond_to_mfa_challenge",
                     !.Session = session,
                     !.username = username,
                     !.mfa_code = mfa_code,
                     !.challenge_name = challenge_name,
                     !.out = respond_to_mfa_challenge(session, username, mfa_code,
                                                      challenge_name),
                     !.sent = mfa_responses(
                                  respond_to_mfa_challenge(session, username, mfa_code,
                                                           challenge_name))]
        /\ UNCHANGED <<storeVars, op, pollVars, wr, flow, dataVars>>

AuthNext == AuthInitiate \/ AuthPasswordVerifier \/ AuthMfaChallenge

SpecAuth == AuthInit /\ [][AuthNext]_vars

-----------------------------------------------------------------------------
(* Config flow: config_flow.py *)

\* Forms submitted in one flow (SpecLogin).
MaxSubmits == 3

\* str(e) of what the provider and the vendor raise during a login.
LNotAuthorized == <<"NotAuthorizedException", "Incorrect", "username", "or", "password.">>
LUserNotFound == <<"UserNotFoundException", "User", "does", "not", "exist.">>
LSmsQuota == <<"UserLambdaValidationException", "sms", "quota", "exceeded">>
LTooMany == <<"TooManyRequestsException", "Rate", "exceeded">>
LLimit == <<"LimitExceededException", "Attempt", "limit", "exceeded">>
LEndpoint == <<"Could", "not", "connect", "to", "the", "endpoint", "URL">>
LDecode == <<"Not", "enough", "segments">>
MCodeMismatch == <<"CodeMismatchException", "Invalid", "code", "or", "auth", "state">>
MExpiredCode == <<"ExpiredCodeException", "Invalid", "code", "provided,">>
MCodeExpired == <<"ExpiredCodeException", "Code", "has", "expired.">>
MSessionExpired == <<"NotAuthorizedException", "Invalid", "session,", "session", "is", "expired.">>

LoginErrors == {LNotAuthorized, LUserNotFound, LSmsQuota, LTooMany, LLimit, LEndpoint}
MfaErrors ==
    {MCodeMismatch, MExpiredCode, MCodeExpired, MSessionExpired,
     LSmsQuota, LTooMany, LLimit, LEndpoint}
VendorErrors == {M500, MConnection}

upper_word(word) ==
    CASE word = "sms" -> "SMS"
      [] word = "quota" -> "QUOTA"
      [] word = "exceeded" -> "EXCEEDED"
      [] OTHER -> word

\* str(e).upper()
str_upper(msg) == [i \in 1..Len(msg) |-> upper_word(msg[i])]

\* "SMS QUOTA" in text: two words that follow each other
sms_quota_in(msg) ==
    \E i \in 1..(Len(msg) - 1) : "SMS" \in Parts(msg[i]) /\ "QUOTA" \in Parts(msg[i + 1])

\* async_step_user: errors["base"] from str(e)
map_login_error(error_str) ==
    IF sms_quota_in(str_upper(error_str))
         \/ in_str("UserLambdaValidationException", error_str)
        THEN "sms_quota_exceeded"
    ELSE IF in_str("NotAuthorizedException", error_str) THEN "auth_failed"
    ELSE IF in_str("UserNotFoundException", error_str) THEN "auth_failed"
    ELSE IF in_str("InvalidPasswordException", error_str) THEN "auth_failed"
    ELSE IF in_str("TooManyRequestsException", error_str) THEN "too_many_requests"
    ELSE IF in_str("LimitExceededException", error_str) THEN "too_many_requests"
    ELSE "auth_failed"

\* A mapping that reports every MFA failure as the generic one.
map_mfa_error_generic(error_str) == "mfa_failed"

\* async_step_mfa: errors["base"] from str(e)
map_mfa_error(error_str) ==
    IF in_str("CodeMismatchException", error_str) \/ in_str("Invalid", error_str)
        THEN "invalid_mfa_code"
    ELSE IF in_str("ExpiredCodeException", error_str)
              \/ in_str("expired", str_lower(error_str))
        THEN "mfa_code_expired"
    ELSE IF sms_quota_in(str_upper(error_str))
              \/ in_str("UserLambdaValidationException", error_str)
        THEN "sms_quota_exceeded"
    ELSE IF in_str("TooManyRequestsException", error_str)
              \/ in_str("LimitExceededException", error_str)
        THEN "too_many_requests"
    ELSE "mfa_failed"

\* async_step_user: the except clause, and the user form shown with the error.
login_failed(f, msg) ==
    [f EXCEPT !.pc = "idle", !.form = "user", !.state = "FAILED",
              !.error_str = msg, !.errors = map_login_error(msg)]

\* A handler that swallows the error and goes on to the vendor login.
mfa_failed_goes_on(f, msg) ==
    [f EXCEPT !.pc = "vendor_mfa", !.error_str = msg, !.state = "MFA_VERIFIED"]

\* async_step_mfa: the except clause, and the MFA form shown with the error.
mfa_failed(f, msg) ==
    [f EXCEPT !.pc = "idle", !.form = "mfa", !.state = "FAILED",
              !.error_str = msg, !.errors = map_mfa_error(msg)]

\* user_input["mfa_code"].strip()
strip(code) == IF code = " 654321 " THEN "654321" ELSE code

LoginInit ==
    /\ ACCESS_TOKEN_FILE = NoPath
    /\ REFRESH_TOKEN_FILE = NoPath
    /\ \E where \in {"nowhere", "portable", "legacy"} : fs = EarlierSession(where)
    /\ op = NoOp
    /\ PollIdle
    /\ WriteIdle
    /\ FlowIdle
    /\ ApiIdle
    /\ DataIdle

\* async_step_user with user_input: a login attempt starts.
SubmitUser ==
    /\ flow.form = "user"
    /\ flow.pc = "idle"
    /\ flow.submits < MaxSubmits
    /\ \E username \in Usernames :
         flow' = [flow EXCEPT !.pc = "initiate", !.state = "INIT",
                              !.errors = "none", !.error_str = NoError,
                              !.username = username, !.vendor_called = FALSE,
                              !.submits = @ + 1]
    /\ UNCHANGED <<storeVars, op, pollVars, wr, api, dataVars>>

\* api.initiate_user_srp_auth: InitiateAuth(USER_SRP_AUTH)
InitiateAuth ==
    /\ flow.pc = "initiate"
    /\ \/ flow' = [flow EXCEPT !.pc = "verifier", !.state = "SRP_CHALLENGE_SENT"]
       \/ \E msg \in LoginErrors : flow' = login_failed(flow, msg)
    /\ UNCHANGED <<storeVars, op, pollVars, wr, api, dataVars>>

\* api.respond_to_password_verifier and the test for the MFA challenge; with
\* a challenge the MFA form is shown.
PasswordVerifier ==
    /\ flow.pc = "verifier"
    /\ \/ \E result \in VerifierAnswers :
            LET tokens == respond_to_password_verifier(result, flow.username)
            IN  flow' =
                  IF tokens.challenge # Missing
                  THEN [flow EXCEPT !.pc = "idle", !.form = "mfa",
                                    !.state = "MFA_REQUIRED",
                                    !.mfa_session = tokens.session,
                                    !.mfa_challenge = tokens.challenge,
                                    !.mfa_username = tokens.username]
                  ELSE [flow EXCEPT !.pc = "vendor", !.state = "PASSWORD_VERIFIED",
                                    !.tokens = tokens.tokens]
       \/ \E msg \in LoginErrors : flow' = login_failed(flow, msg)
    /\ UNCHANGED <<storeVars, op, pollVars, wr, api, dataVars>>

\* async_step_mfa with user_input: a code is submitted for the challenge.
SubmitMfa ==
    /\ flow.form = "mfa"
    /\ flow.pc = "idle"
    /\ flow.submits < MaxSubmits
    /\ \E code \in MfaCodes :
         flow' = [flow EXCEPT !.pc = "mfa_call", !.state = "MFA_REQUIRED",
                              !.errors = "none", !.error_str = NoError,
                              !.mfa_code = strip(code), !.vendor_called = FALSE,
                              !.submits = @ + 1]
    /\ UNCHANGED <<storeVars, op, pollVars, wr, api, dataVars>>

\* api.respond_to_mfa_challenge: the provider takes the code or rejects it.
MfaCall ==
    /\ flow.pc = "mfa_call"
    /\ LET request == respond_to_mfa_challenge(flow.mfa_session, flow.mfa_username,
                                               flow.mfa_code, flow.mfa_challenge)
           sent == [flow EXCEPT !.mfa_sent = Append(@, request.Session)]
       IN  \/ /\ request.code = "654321"
              /\ \E t \in CognitoTokens :
                   flow' = [sent EXCEPT !.pc = "vendor_mfa", !.state = "MFA_VERIFIED",
                                        !.tokens = t]
           \/ \E msg \in MfaErrors :
                /\ msg = MCodeMismatch => request.code # "654321"
                /\ flow' = mfa_failed(sent, msg)
    /\ UNCHANGED <<storeVars, op, pollVars, wr, api, dataVars>>

\* api.decode_id_token and api.cubo_mobile_login, then the tokens are kept and
\* async_step_select_camera shows its form.
VendorLogin ==
    /\ flow.pc \in {"vendor", "vendor_mfa"}
    /\ \/ /\ minted' = minted + 1
          /\ flow' = [flow EXCEPT !.pc = "idle", !.form = "select_camera",
                                  !.state = "AUTHENTICATED", !.vendor_called = TRUE,
                                  !.access_token = minted', !.refresh_token = minted']
       \/ /\ \E msg \in VendorErrors :
               flow' = IF flow.pc = "vendor"
                       THEN login_failed([flow EXCEPT !.vendor_called = TRUE], msg)
                       ELSE mfa_failed([flow EXCEPT !.vendor_called = TRUE], msg)
          /\ UNCHANGED minted
       \/ /\ flow' = IF flow.pc = "vendor" THEN login_failed(flow, LDecode)
                     ELSE mfa_failed(flow, LDecode)
          /\ UNCHANGED minted
    /\ UNCHANGED <<storeVars, op, entry, responses, polls, sn, wr, api, dataVars>>

\* async_step_select_camera with user_input: async_create_entry, or the form
\* again when the camera list cannot be fetched.
SelectCamera ==
    /\ flow.form = "select_camera"
    /\ flow.pc = "idle"
    /\ \/ /\ entry' = <<flow.access_token, flow.refresh_token>>
          /\ flow' = [flow EXCEPT !.form = "entry", !.errors = "none"]
       \/ /\ flow' = [flow EXCEPT !.errors = "camera_fetch_failed"]
          /\ UNCHANGED entry
    /\ UNCHANGED <<storeVars, op, minted, responses, polls, sn, wr, api, dataVars>>

LoginNext ==
    \/ SubmitUser
    \/ InitiateAuth
    \/ PasswordVerifier
    \/ SubmitMfa
    \/ MfaCall
    \/ VendorLogin
    \/ SelectCamera

SpecLogin == LoginInit /\ [][LoginNext]_vars

-----------------------------------------------------------------------------
(* Alerts: api/cuboai_functions.py, api/async_api.py *)

\* The greatest timestamp the vendor's records carry; 0 stands for a record
\* whose ts is missing or zero.
MaxTs == 3

\* The greatest number of records in one batch.
MaxBatch == 2

\* The greatest n get_n_alerts_paged is called with.
MaxN == 2

max_iters == 100

\* since_ts = now - hours_back * 60 * 60: the start of the lookback window.
InitialSince == 2

TargetDevice == "device-1"
OtherDevice == "device-2"

\* The alert ids of the vendor and the camera each belongs to.
AlertIds == {1, 2, 3}
device_of(id) == IF id = 3 THEN OtherDevice ELSE TargetDevice

\* The records a batch may hold.
AlertRecords ==
    {[id |-> i, device_id |-> device_of(i), ts |-> t] : i \in AlertIds, t \in 0..MaxTs}

\* A record of the camera that lacks the id field.
MalformedRecords == {[device_id |-> TargetDevice, ts |-> MaxTs]}

\* The timelines of an honest vendor: each alert id at most once, every
\* timestamp inside the lookback window.
Timelines ==
    {T \in SUBSET {a \in AlertRecords : a.ts >= InitialSince} :
        \A a, b \in T : a.id = b.id => a = b}

\* The records an honest vendor answers a request at cursor s with: alerts
\* it holds with ts >= s, any of them, in any order, whatever earlier batches
\* held; the batch is empty only when there is none.
Due(T, s) == {a \in T : a.ts >= s}

max(S) == CHOOSE x \in S : \A y \in S : y <= x
min(a, b) == IF a <= b THEN a ELSE b

\* a.get(key): None for a key the dict does not hold.
get(a, key) == IF key \in DOMAIN a THEN a[key] ELSE None

\* The values of params. A str holds its text; a structured value or None is
\* written by its type and its content.
PyStr(text) == <<"str", text>>
PyNone == <<"NoneType">>
PyDict == <<"dict", "k", "1">>
PyList == <<"list", "1">>
PyInt == <<"int", "7">>
isinstance_str(v) == v[1] = "str"

\* json.loads(text): the value, or the exception it raises.
json_loads(text) ==
    CASE text = "{\"k\": 1}" -> [exc |-> "none", value |-> PyDict]
      [] text = "[1]" -> [exc |-> "none", value |-> PyList]
      [] text = "7" -> [exc |-> "none", value |-> PyInt]
      [] text = "null" -> [exc |-> "none", value |-> PyNone]
      [] text = "{\"baby\": \"Emma\"}" -> [exc |-> "none", value |-> <<"dict", "baby", "Emma">>]
      [] text = "{\"baby\": \"Liam\"}" -> [exc |-> "none", value |-> <<"dict", "baby", "Liam">>]
      [] text = "{}" -> [exc |-> "none", value |-> <<"dict">>]
      [] text = "[]" -> [exc |-> "none", value |-> <<"list">>]
      [] OTHER -> [exc |-> "JSONDecodeError", value |-> PyNone]

NormalKeys ==
    {"id", "device_id", "type", "ts", "created", "image", "params", "profile", "region"}

\* A normalization that gives up the params it cannot parse.
normalize_alert_drop(a) ==
    LET params == IF "params" \in DOMAIN a THEN a.params ELSE PyNone
        parsed == IF isinstance_str(params) THEN json_loads(params[2]).value ELSE params
    IN  [key \in NormalKeys |-> IF key = "params" THEN parsed ELSE get(a, key)]

\* _normalize_alert: params parsed when it is a str that parses, the other
\* eight fields by a.get.
normalize_alert(a) ==
    LET params == IF "params" \in DOMAIN a THEN a.params ELSE PyNone
        loaded == json_loads(params[2])
        parsed == IF isinstance_str(params) /\ ~IsException(loaded.exc)
                  THEN loaded.value ELSE params
    IN  [key \in NormalKeys |-> IF key = "params" THEN parsed ELSE get(a, key)]

\* A dict that keeps every record it is given.
dict_append(d, a) == Append(d, a)

\* all_alerts_for_device[a["id"]] = a: a known key keeps its place.
dict_set(d, a) ==
    IF \E i \in 1..Len(d) : d[i].id = a.id
    THEN [i \in 1..Len(d) |-> IF d[i].id = a.id THEN a ELSE d[i]]
    ELSE Append(d, a)

\* A loop body that keeps the records of every device.
for_device_any(a, device_id) == TRUE

\* if a.get("device_id") == device_id
for_device(a, device_id) == get(a, "device_id") = device_id

\* max(ts_list) if ts_list else since_ts, ts_list holding the truthy ts of
\* the batch: ts_max is its greatest element, 0 while it is empty.
max_ts_in_page(ts_max, since_ts) == IF ts_max # 0 THEN ts_max ELSE since_ts

\* A loop that goes on whatever the cursor does.
progress_always(next_since, since_ts) == TRUE

\* seen_progress = next_since > since_ts
progress(next_since, since_ts) == next_since > since_ts

\* sorted(values, key=ts, reverse=True): stable, equal keys keep their order.
RECURSIVE sorted_desc(_)
sorted_desc(values) ==
    IF values = <<>> THEN <<>>
    ELSE LET last == values[Len(values)]
             front == sorted_desc(SubSeq(values, 1, Len(values) - 1))
             k == Cardinality({i \in 1..Len(front) : front[i].ts >= last.ts})
         IN  SubSeq(front, 1, k) \o <<last>> \o SubSeq(front, k + 1, Len(front))

\* sorted(...)[:n], each record normalized
newest(values, n) ==
    LET result == SubSeq(sorted_desc(values), 1, min(n, Len(values)))
    IN  [i \in 1..Len(result) |-> normalize_alert(result[i])]

-----------------------------------------------------------------------------
(* SpecAlerts: get_n_alerts_paged against a vendor that answers anything,   *)
(* and against one that answers each cursor from the alerts it holds        *)

AlertsInit ==
    /\ ACCESS_TOKEN_FILE = NoPath
    /\ REFRESH_TOKEN_FILE = NoPath
    /\ fs = EarlierSession("nowhere")
    /\ op = NoOp
    /\ PollIdle
    /\ WriteIdle
    /\ FlowIdle
    /\ ApiIdle
    /\ MoreIdle
    /\ na = NoNormalize
    /\ img = NoImages
    /\ cam = NoCameras
    /\ \/ pg = [NoPager EXCEPT !.server = "any"]
       \/ \E T \in Timelines : pg = [NoPager EXCEPT !.server = "honest", !.timeline = T]

\* get_n_alerts_paged(device_id, ..., n, hours_back) up to the loop
AlertsCall ==
    /\ pg.pc = "idle"
    /\ \E n \in 1..MaxN :
         pg' = [pg EXCEPT !.pc = "loop", !.n = n, !.since_ts = InitialSince]
    /\ UNCHANGED <<storeVars, op, pollVars, wr, flow, api, na, img, cam, moreVars>>

\* The record is of the device and an earlier batch has brought its id.
came_before(r, a) ==
    /\ for_device(a, TargetDevice)
    /\ \E i \in 1..Len(r.all_alerts_for_device) : r.all_alerts_for_device[i].id = a.id

\* The call ended by the exception exc: its locals are gone.
raised_in_loop(r, exc) ==
    [NoPager EXCEPT !.pc = "raised", !.error = exc, !.n = r.n, !.server = r.server,
                    !.timeline = r.timeline]

\* while iters < max_iters and seen_progress
loop_goes_on(r) == r.iters < max_iters /\ r.seen_progress

\* The body of for a in data for one record: its ts goes to ts_list when
\* truthy, the record into the dict when it is of the device; a["id"] of a
\* record without the key raises KeyError, which nothing catches.
page_record(r, a) ==
    IF for_device(a, TargetDevice) /\ "id" \notin DOMAIN a
    THEN raised_in_loop(r, "KeyError")
    ELSE [r EXCEPT
           !.data_len = @ + 1,
           !.ts_max = IF a.ts > @ THEN a.ts ELSE @,
           !.repeated = @ \/ (r.data_len = 0 /\ came_before(r, a)),
           !.all_alerts_for_device =
               IF for_device(a, TargetDevice) THEN dict_set(@, a) ELSE @]

\* After the for loop: next_since, seen_progress, since_ts, iters; the test
\* of len(all_alerts_for_device) >= n does nothing.
page_end(r) ==
    LET next_since == max_ts_in_page(r.ts_max, r.since_ts) + 1
    IN  [r EXCEPT
          !.pc = "loop",
          !.seen_progress = progress(next_since, r.since_ts),
          !.since_ts = next_since,
          !.iters = @ + 1,
          !.stalled = @ /\ r.ts_max \in 1..InitialSince]

\* After the while loop: sorted, the first n, normalized.
after_loop(r) ==
    [r EXCEPT !.pc = "done", !.result = newest(r.all_alerts_for_device, r.n)]

\* The head of the while loop and the request: raise_for_status ends the
\* call with the exception, an empty batch breaks the loop.
AlertsRequest ==
    /\ pg.pc = "loop"
    /\ loop_goes_on(pg)
    /\ \/ pg' = [pg EXCEPT !.pc = "raised", !.error = "HTTPError", !.requests = @ + 1]
       \/ /\ pg.server = "honest" => Due(pg.timeline, pg.since_ts) = {}
          /\ pg' = [pg EXCEPT !.pc = "sort", !.requests = @ + 1]
       \/ /\ pg.server = "honest" => Due(pg.timeline, pg.since_ts) # {}
          /\ pg' = [pg EXCEPT !.pc = "page", !.requests = @ + 1,
                               !.data_len = 0, !.ts_max = 0]
    /\ UNCHANGED <<storeVars, op, pollVars, wr, flow, api, na, img, cam, moreVars>>

\* for a in data, one record of the batch: its ts goes to ts_list when
\* truthy, the record into the dict when it is of the device.
AlertsRecord ==
    /\ pg.pc = "page"
    /\ pg.data_len < MaxBatch
    /\ \E a \in (IF pg.server = "honest" THEN Due(pg.timeline, pg.since_ts)
                 ELSE AlertRecords \cup MalformedRecords) :
         pg' = page_record(pg, a)
    /\ UNCHANGED <<storeVars, op, pollVars, wr, flow, api, na, img, cam, moreVars>>

\* The end of the batch: the cursor goes to the batch's greatest ts plus one.
AlertsAdvance ==
    /\ pg.pc = "page"
    /\ pg.data_len >= 1
    /\ pg' = page_end(pg)
    /\ UNCHANGED <<storeVars, op, pollVars, wr, flow, api, na, img, cam, moreVars>>

\* After the loop: newest first, the first n, normalized.
AlertsReturn ==
    /\ pg.pc \in {"loop", "sort"}
    /\ pg.pc = "loop" => ~loop_goes_on(pg)
    /\ pg' = after_loop(pg)
    /\ UNCHANGED <<storeVars, op, pollVars, wr, flow, api, na, img, cam, moreVars>>

AlertsNext == AlertsCall \/ AlertsRequest \/ AlertsRecord \/ AlertsAdvance \/ AlertsReturn

SpecAlerts == AlertsInit /\ [][AlertsNext]_vars

-----------------------------------------------------------------------------
(* The async paginator: api/async_api.py *)

\* async_api._normalize_alert
async_normalize_alert(alert) ==
    LET params == IF "params" \in DOMAIN alert THEN alert.params ELSE PyNone
        loaded == json_loads(params[2])
    IN  [key \in NormalKeys |->
           IF key # "params" THEN get(alert, key)
           ELSE IF isinstance_str(params) /\ ~IsException(loaded.exc) THEN loaded.value
           ELSE params]

async_max_iters == 100

\* while iters < max_iters and seen_progress
async_loop_goes_on(r) == r.iters < async_max_iters /\ r.seen_progress

\* for a in data, one record
async_page_record(r, a) ==
    LET ts == IF "ts" \in DOMAIN a THEN a.ts ELSE 0
    IN  IF get(a, "device_id") = TargetDevice
        THEN IF "id" \in DOMAIN a
             THEN [r EXCEPT !.data_len = @ + 1,
                            !.ts_max = IF ts # 0 /\ ts > @ THEN ts ELSE @,
                            !.all_alerts_for_device = dict_set(@, a)]
             ELSE raised_in_loop(r, "KeyError")
        ELSE [r EXCEPT !.data_len = @ + 1,
                       !.ts_max = IF ts # 0 /\ ts > @ THEN ts ELSE @]

\* A loop that moves the cursor by one whatever the batch holds.
async_page_end_by_one(r) ==
    [r EXCEPT !.pc = "loop", !.since_ts = @ + 1, !.iters = @ + 1]

\* After the for loop: max_ts_in_page, next_since, seen_progress, since_ts,
\* iters; the test of len(all_alerts_for_device) >= n does nothing.
async_page_end(r) ==
    LET ts_list_max == IF r.ts_max # 0 THEN r.ts_max ELSE r.since_ts
        next_since == ts_list_max + 1
    IN  [r EXCEPT !.pc = "loop",
                  !.seen_progress = next_since > r.since_ts,
                  !.since_ts = next_since,
                  !.iters = @ + 1]

\* After the while loop: sorted newest first, the first n, normalized
async_after_loop(r) ==
    LET sorted == sorted_desc(r.all_alerts_for_device)
        result == SubSeq(sorted, 1, min(r.n, Len(sorted)))
    IN  [r EXCEPT !.pc = "done",
                  !.result = [i \in 1..Len(result) |-> async_normalize_alert(result[i])]]

-----------------------------------------------------------------------------
(* SpecTwin: the blocking and the async get_n_alerts_paged, called with the *)
(* same arguments and given the same batches. What SpecAlerts observes of   *)
(* the batches (stalled, repeated) is not kept here.                        *)

\* What the vendor does with a request.
Outcomes == {"raised", "empty", "page"}

\* The request of the blocking loop and what follows: raise_for_status, the
\* break on an empty batch, or the for loop.
response(r, outcome) ==
    CASE outcome = "raised" ->
           [r EXCEPT !.pc = "raised", !.error = "HTTPError", !.requests = @ + 1]
      [] outcome = "empty" -> [r EXCEPT !.pc = "sort", !.requests = @ + 1]
      [] outcome = "page" ->
           [r EXCEPT !.pc = "page", !.requests = @ + 1, !.data_len = 0, !.ts_max = 0]

\* The request of the async loop and what follows
async_response(r, outcome) ==
    IF outcome = "raised"
    THEN [r EXCEPT !.requests = @ + 1, !.pc = "raised", !.error = "HTTPError"]
    ELSE IF outcome = "empty"
    THEN [r EXCEPT !.requests = @ + 1, !.pc = "sort"]
    ELSE [r EXCEPT !.requests = @ + 1, !.pc = "page", !.data_len = 0, !.ts_max = 0]

TwinInit ==
    /\ ACCESS_TOKEN_FILE = NoPath
    /\ REFRESH_TOKEN_FILE = NoPath
    /\ fs = EarlierSession("nowhere")
    /\ op = NoOp
    /\ PollIdle
    /\ WriteIdle
    /\ FlowIdle
    /\ ApiIdle
    /\ na = NoNormalize
    /\ img = NoImages
    /\ cam = NoCameras
    /\ reg = NoRegistry
    /\ pg = [NoPager EXCEPT !.server = "any"]
    /\ apg = [NoPager EXCEPT !.server = "any"]

\* Both are called with the same device, n and hours_back at the same time.
TwinCall ==
    /\ pg.pc = "idle" /\ apg.pc = "idle"
    /\ \E n \in 1..MaxN :
         /\ pg' = [pg EXCEPT !.pc = "loop", !.n = n, !.since_ts = InitialSince]
         /\ apg' = [apg EXCEPT !.pc = "loop", !.n = n, !.since_ts = InitialSince]
    /\ UNCHANGED <<storeVars, op, pollVars, wr, flow, api, na, img, cam, reg>>

\* The head of the two loops: the one that goes on makes its request, and
\* the vendor does the same with both.
TwinRequest ==
    /\ pg.pc = "loop" /\ apg.pc = "loop"
    /\ loop_goes_on(pg) \/ async_loop_goes_on(apg)
    /\ \E outcome \in Outcomes :
         /\ pg' = IF loop_goes_on(pg) THEN response(pg, outcome) ELSE after_loop(pg)
         /\ apg' = IF async_loop_goes_on(apg) THEN async_response(apg, outcome)
                   ELSE async_after_loop(apg)
    /\ UNCHANGED <<storeVars, op, pollVars, wr, flow, api, na, img, cam, reg>>

\* The next record of the batch, the same for both.
TwinRecord ==
    /\ pg.pc = "page" /\ apg.pc = "page"
    /\ pg.data_len < MaxBatch
    /\ \E a \in AlertRecords \cup MalformedRecords :
         /\ pg' = [page_record(pg, a) EXCEPT !.repeated = FALSE]
         /\ apg' = async_page_record(apg, a)
    /\ UNCHANGED <<storeVars, op, pollVars, wr, flow, api, na, img, cam, reg>>

\* The end of the batch.
TwinAdvance ==
    /\ pg.pc = "page" /\ apg.pc = "page"
    /\ pg.data_len >= 1
    /\ pg' = [page_end(pg) EXCEPT !.stalled = TRUE]
    /\ apg' = async_page_end(apg)
    /\ UNCHANGED <<storeVars, op, pollVars, wr, flow, api, na, img, cam, reg>>

\* Both loops are over: each returns its list.
TwinReturn ==
    /\ pg.pc \in {"loop", "sort"} /\ apg.pc = pg.pc
    /\ pg.pc = "loop" => ~loop_goes_on(pg) /\ ~async_loop_goes_on(apg)
    /\ pg' = after_loop(pg)
    /\ apg' = async_after_loop(apg)
    /\ UNCHANGED <<storeVars, op, pollVars, wr, flow, api, na, img, cam, reg>>

TwinNext == TwinCall \/ TwinRequest \/ TwinRecord \/ TwinAdvance \/ TwinReturn

SpecTwin == TwinInit /\ [][TwinNext]_vars

-----------------------------------------------------------------------------
(* SpecNormalize: _normalize_alert on every shape of params *)

ParamsValues ==
    {PyStr("{\"k\": 1}"), PyStr("[1]"), PyStr("7"), PyStr("null"),
     PyStr("not json"), PyStr(""), PyStr("{\"k\": "),
     PyDict, PyList, PyInt, PyNone}

\* The alerts the vendor sends: with params, and without the key.
RawAlerts ==
    [id : {1, 2}, device_id : {TargetDevice, OtherDevice}, ts : {0, 1, 2},
     params : ParamsValues]
    \cup [id : {1, 2}, device_id : {TargetDevice}, ts : {1, 2}, image : {"https://img"}]

NormalizeInit ==
    /\ ACCESS_TOKEN_FILE = NoPath
    /\ REFRESH_TOKEN_FILE = NoPath
    /\ fs = EarlierSession("nowhere")
    /\ op = NoOp
    /\ PollIdle
    /\ WriteIdle
    /\ FlowIdle
    /\ ApiIdle
    /\ MoreIdle
    /\ pg = NoPager
    /\ na = NoNormalize
    /\ img = NoImages
    /\ cam = NoCameras

NormalizeCall ==
    /\ \E a \in RawAlerts :
         na' = [pc |-> "done", a |-> a, out |-> normalize_alert(a)]
    /\ UNCHANGED <<storeVars, op, pollVars, wr, flow, api, pg, img, cam, moreVars>>

NormalizeNext == NormalizeCall

SpecNormalize == NormalizeInit /\ [][NormalizeNext]_vars

-----------------------------------------------------------------------------
(* Images: CuboLastAlertSensor.async_update, the downloads and the cleanup *)

\* The greatest number of images one poll cycle downloads.
MaxDownloads == 3

\* files[5:] are removed.
Keep == 5

\* alert.get("id") of the alerts that carry an image.
ImageIds == {"a1", "a2", "a3", "a4", "a5", "a6", "a7", "a8"}

\* A camera whose device id is the target's id, an underscore and more.
PrefixedDevice == "device-1_b"

\* A device id as the parts an underscore separates.
name_parts(device_id) ==
    IF device_id = PrefixedDevice THEN <<"device-1", "b">> ELSE <<device_id>>

\* f"{self._device_id}_{alert.get('id')}.jpg": the name as the parts the
\* underscores separate, the id last.
filename(device_id, id) == name_parts(device_id) \o <<id>>

\* local_image_path = None
NoImage == <<>>

\* The image directory is the sequence of its files by st_mtime, the most
\* recently modified last. It holds an image of another camera.
OtherImage == filename(OtherDevice, "a1")

\* A glob that matches the files the device has written and no other.
glob_own(dir, prefix) ==
    LET of_prefix(f) == Len(f) = Len(name_parts(prefix)) + 1
                         /\ SubSeq(f, 1, Len(name_parts(prefix))) = name_parts(prefix)
    IN  SelectSeq(dir, of_prefix)

\* Path(dir_path).glob(f"{prefix}_*.jpg"), by st_mtime: the names that begin
\* with the prefix and an underscore.
glob(dir, prefix) ==
    LET of_prefix(f) == Len(f) > Len(name_parts(prefix))
                         /\ SubSeq(f, 1, Len(name_parts(prefix))) = name_parts(prefix)
    IN  SelectSeq(dir, of_prefix)

reversed(seq) == [i \in 1..Len(seq) |-> seq[Len(seq) + 1 - i]]

\* download_image: open(save_path, "wb") and the write make the file the
\* most recently modified one, whether it existed or not.
download_image(dir, name) ==
    LET other(f) == f # name
    IN  Append(SelectSeq(dir, other), name)

\* A cleanup that sorts the oldest first.
cleanup_images_oldest_first(dir, prefix) ==
    LET files == glob(dir, prefix)
        old == {files[i] : i \in (Keep + 1)..Len(files)}
        kept(f) == f \notin old
    IN  SelectSeq(dir, kept)

\* _cleanup_images: the files of the prefix sorted by st_mtime, newest
\* first, and files[5:] unlinked.
cleanup_images(dir, prefix) ==
    LET files == reversed(glob(dir, prefix))
        old == {files[i] : i \in (Keep + 1)..Len(files)}
        kept(f) == f \notin old
    IN  SelectSeq(dir, kept)

\* The files this cycle has downloaded: the last got files of the directory.
downloaded(r) == {r.dir[i] : i \in (Len(r.dir) - r.got + 1)..Len(r.dir)}

ImagesInit ==
    /\ ACCESS_TOKEN_FILE = NoPath
    /\ REFRESH_TOKEN_FILE = NoPath
    /\ fs = EarlierSession("nowhere")
    /\ op = NoOp
    /\ PollIdle
    /\ WriteIdle
    /\ FlowIdle
    /\ ApiIdle
    /\ MoreIdle
    /\ pg = NoPager
    /\ na = NoNormalize
    /\ img = [NoImages EXCEPT !.dir = <<OtherImage>>]
    /\ cam = NoCameras

\* A poll cycle up to the alerts: the fetch fails or finds no alert, and the
\* cycle ends; or it returns alerts, and the loop over them begins.
ImagesFetch ==
    /\ img.pc = "idle"
    /\ \/ \E how \in {"Error", "No alerts"} :
            img' = [img EXCEPT !.last = how, !.before = 0]
       \/ \E download_images \in BOOLEAN :
            img' = [img EXCEPT !.pc = "alerts", !.last = "alerts", !.before = 0,
                               !.download_images = download_images, !.got = 0]
    /\ UNCHANGED <<storeVars, op, pollVars, wr, flow, api, pg, na, cam, moreVars>>

\* for alert in alerts: an alert with an image whose download succeeds. (An
\* alert without image, or whose download raises, leaves the directory as
\* it is.) The alerts of a cycle differ in their ids.
ImagesDownload ==
    /\ img.pc = "alerts"
    /\ img.download_images
    /\ img.got < MaxDownloads
    /\ \E id \in ImageIds :
         /\ filename(TargetDevice, id) \notin downloaded(img)
         /\ img' = [img EXCEPT !.dir = download_image(@, filename(TargetDevice, id)),
                               !.got = @ + 1]
    /\ UNCHANGED <<storeVars, op, pollVars, wr, flow, api, pg, na, cam, moreVars>>

\* The end of the cycle: the cleanup when downloads are on, then the state
\* and the attributes.
ImagesCleanup ==
    /\ img.pc = "alerts"
    /\ img' = [img EXCEPT
                !.pc = "idle", !.got = 0, !.download_images = TRUE,
                !.before = Len(glob(img.dir, TargetDevice)),
                !.dir = IF img.download_images THEN cleanup_images(@, TargetDevice)
                        ELSE @]
    /\ UNCHANGED <<storeVars, op, pollVars, wr, flow, api, pg, na, cam, moreVars>>

ImagesNext == ImagesFetch \/ ImagesDownload \/ ImagesCleanup

SpecImages == ImagesInit /\ [][ImagesNext]_vars

-----------------------------------------------------------------------------
(* SpecLastAlert: the alerts attribute of the last-alert sensor and the     *)
(* image directory it shares with the sensors of other cameras              *)

\* The greatest alerts_count the entry is configured with.
MaxAlerts == 6

\* alert.get("id") of the fetched alerts, the newest first.
AlertOrder == <<"a1", "a2", "a3", "a4", "a5", "a6", "a7", "a8">>

\* An image the sensor of the prefixed camera has downloaded.
PrefixedImage == filename(PrefixedDevice, "a1")

\* The directory holds images of other cameras; alerts_count is configured.
LastAlertInit ==
    /\ ACCESS_TOKEN_FILE = NoPath
    /\ REFRESH_TOKEN_FILE = NoPath
    /\ fs = EarlierSession("nowhere")
    /\ op = NoOp
    /\ PollIdle
    /\ WriteIdle
    /\ FlowIdle
    /\ ApiIdle
    /\ MoreIdle
    /\ pg = NoPager
    /\ na = NoNormalize
    /\ cam = NoCameras
    /\ \E alerts_count \in 1..MaxAlerts,
          dir \in {<<OtherImage>>, <<PrefixedImage, OtherImage>>} :
         img = [NoImages EXCEPT !.dir = dir, !.max_alerts = alerts_count]

\* async_update up to the loop: get_n_alerts_paged returns up to max_alerts
\* alerts, the newest first; without alerts the cycle ends.
LastAlertFetch ==
    /\ img.pc = "idle"
    /\ \/ img' = [img EXCEPT !.last = "No alerts", !.attributes = <<>>]
       \/ \E count \in 1..img.max_alerts, download_images \in BOOLEAN :
            img' = [img EXCEPT !.pc = "alerts", !.last = "alerts", !.count = count,
                               !.download_images = download_images,
                               !.alert_dicts = <<>>]
    /\ UNCHANGED <<storeVars, op, pollVars, wr, flow, api, pg, na, cam, moreVars>>

\* for alert in alerts, one alert: with downloads on and an image whose
\* download succeeds the file is written and its path listed; otherwise the
\* alert is listed with no path.
LastAlertAlert ==
    /\ img.pc = "alerts"
    /\ Len(img.alert_dicts) < img.count
    /\ LET name == filename(TargetDevice, AlertOrder[Len(img.alert_dicts) + 1])
       IN  \/ /\ img.download_images
              /\ img' = [img EXCEPT !.dir = download_image(@, name),
                                    !.alert_dicts = Append(@, name)]
           \/ img' = [img EXCEPT !.alert_dicts = Append(@, NoImage)]
    /\ UNCHANGED <<storeVars, op, pollVars, wr, flow, api, pg, na, cam, moreVars>>

\* After the loop: the cleanup when downloads are on, then the attributes.
LastAlertEnd ==
    /\ img.pc = "alerts"
    /\ Len(img.alert_dicts) = img.count
    /\ img' = [img EXCEPT
                !.pc = "idle", !.count = 0, !.alert_dicts = <<>>,
                !.download_images = TRUE,
                !.attributes = img.alert_dicts,
                !.dir = IF img.download_images THEN cleanup_images(@, TargetDevice)
                        ELSE @]
    /\ UNCHANGED <<storeVars, op, pollVars, wr, flow, api, pg, na, cam, moreVars>>

LastAlertNext == LastAlertFetch \/ LastAlertAlert \/ LastAlertEnd

SpecLastAlert == LastAlertInit /\ [][LastAlertNext]_vars

-----------------------------------------------------------------------------
(* Camera profiles: get_camera_profiles *)

\* The greatest number of cameras of an account.
MaxCameras == 2

DeviceIds == {TargetDevice, OtherDevice}

\* The profile field of a camera entry: JSON text of an object with or
\* without the baby's name, JSON text of a list, text that is no JSON, null.
ProfileValues ==
    {PyStr("{\"baby\": \"Emma\"}"), PyStr("{\"baby\": \"Liam\"}"), PyStr("{}"),
     PyStr("[]"), PyStr("not json"), PyNone}

\* The entries of data["profiles"], with the profile field and without it.
CameraEntries ==
    [device_id : DeviceIds, profile : ProfileValues] \cup [device_id : DeviceIds]

\* json.loads(profile.get("profile", "{}")): a TypeError for a value that
\* is no str.
profile_data(camera) ==
    LET text == IF "profile" \in DOMAIN camera THEN camera.profile ELSE PyStr("{}")
    IN  IF isinstance_str(text) THEN json_loads(text[2])
        ELSE [exc |-> "TypeError", value |-> PyNone]

\* profile_data.get("baby", "Unknown"): an AttributeError for a value that
\* is no dict.
baby_name(value) ==
    IF value[1] # "dict" THEN [exc |-> "AttributeError", value |-> "Unknown"]
    ELSE IF Len(value) >= 3 /\ value[2] = "baby" THEN [exc |-> "none", value |-> value[3]]
    ELSE [exc |-> "none", value |-> "Unknown"]

\* device_map[baby_name] = device_id, the map as the set of its items
map_set(device_map, key, value) ==
    {item \in device_map : item[1] # key} \cup {<<key, value>>}

\* The body of the for loop: the try, and the except that goes on.
add_profile(device_map, camera) ==
    LET loaded == profile_data(camera)
        name == baby_name(loaded.value)
    IN  IF IsException(loaded.exc) \/ IsException(name.exc) THEN device_map
        ELSE map_set(device_map, name.value, get(camera, "device_id"))

RECURSIVE device_map_of(_, _)
device_map_of(device_map, profiles) ==
    IF profiles = <<>> THEN device_map
    ELSE device_map_of(add_profile(device_map, Head(profiles)), Tail(profiles))

CamerasInit ==
    /\ ACCESS_TOKEN_FILE = NoPath
    /\ REFRESH_TOKEN_FILE = NoPath
    /\ fs = EarlierSession("nowhere")
    /\ op = NoOp
    /\ PollIdle
    /\ WriteIdle
    /\ FlowIdle
    /\ ApiIdle
    /\ MoreIdle
    /\ pg = NoPager
    /\ na = NoNormalize
    /\ img = NoImages
    /\ cam = NoCameras

\* get_camera_profiles: the request, raise_for_status, and the loop over
\* data.get("profiles", []).
CamerasCall ==
    /\ cam.pc = "idle"
    /\ \/ cam' = [cam EXCEPT !.pc = "raised"]
       \/ \E k \in 0..MaxCameras : \E profiles \in [1..k -> CameraEntries] :
            cam' = [cam EXCEPT !.pc = "done", !.profiles = profiles,
                               !.device_map = device_map_of({}, profiles)]
    /\ UNCHANGED <<storeVars, op, pollVars, wr, flow, api, pg, na, img, moreVars>>

CamerasNext == CamerasCall

SpecCameras == CamerasInit /\ [][CamerasNext]_vars

-----------------------------------------------------------------------------
(* Sensor setup: __init__.py, sensor.py; SpecSetup *)

\* Config entries set up at the same time.
MaxEntries == 2

EntryIds == {"entry-1", "entry-2", "entry-3"}
BabyNames == {"Emma", "Liam"}

\* entry.data of a config entry, with the entry_id Home Assistant gave it
ConfigEntries ==
    [entry_id : EntryIds, device_id : DeviceIds, baby_name : BabyNames]

\* The unique_id property of the four sensor classes
unique_id(sensor) ==
    CASE sensor.type = "baby_info" -> <<"cuboai_baby_info", sensor.device_id>>
      [] sensor.type = "last_alert" -> <<"cuboai_last_alert", sensor.device_id>>
      [] sensor.type = "subscription" -> <<"cuboai_subscription">>
      [] sensor.type = "camera_state" -> <<"cuboai_camera_state", sensor.device_id>>

\* sensor.async_setup_entry: the list handed to async_add_entities
sensors_of(config_entry) ==
    LET made(type, title) ==
            [type |-> type, entry_id |-> config_entry.entry_id,
             device_id |-> config_entry.device_id,
             name |-> <<title, config_entry.baby_name>>]
    IN  <<made("baby_info", "CuboAI Baby Info"),
          made("last_alert", "CuboAI Last Alert"),
          made("subscription", "CuboAI Subscription"),
          made("camera_state", "CuboAI Camera State")>>

SetupInit ==
    /\ ACCESS_TOKEN_FILE = NoPath
    /\ REFRESH_TOKEN_FILE = NoPath
    /\ fs = EarlierSession("nowhere")
    /\ op = NoOp
    /\ PollIdle
    /\ WriteIdle
    /\ FlowIdle
    /\ ApiIdle
    /\ DataIdle

\* __init__.async_setup_entry and sensor.async_setup_entry for a config entry
\* that is not set up: its four sensors are added.
SetupEntry ==
    /\ Cardinality(reg.entries) < MaxEntries
    /\ \E config_entry \in ConfigEntries :
         /\ config_entry.entry_id \notin reg.entries
         /\ reg' = [entries |-> reg.entries \cup {config_entry.entry_id},
                    sensors |-> reg.sensors \o sensors_of(config_entry)]
    /\ UNCHANGED <<storeVars, op, pollVars, wr, flow, api, pg, na, img, cam, apg>>

\* __init__.async_unload_entry: the entry's sensors are removed.
UnloadEntry ==
    /\ \E entry_id \in reg.entries :
         reg' = [entries |-> reg.entries \ {entry_id},
                 sensors |-> SelectSeq(reg.sensors,
                                       LAMBDA sensor : sensor.entry_id # entry_id)]
    /\ UNCHANGED <<storeVars, op, pollVars, wr, flow, api, pg, na, img, cam, apg>>

SetupNext == SetupEntry \/ UnloadEntry

SpecSetup == SetupInit /\ [][SetupNext]_vars

-----------------------------------------------------------------------------
(* What the claims speak of *)

\* The tokens the Token Store holds now.
StoreAccess == Load("access_token", fs)
StoreRefresh == Load("refresh_token", fs)

\* An authorization failure: HTTP status 401, or a provider message that
\* holds "unauthorized" in any letter case.
AuthorizationFailure(msg) ==
    /\ msg # NoError
    /\ \/ msg[1] = "401"
       \/ in_str("unauthorized", str_lower(msg))

\* The failure state of a sensor, by its type.
FailureState(r) ==
    IF r.type = "baby_info" THEN r.attributes = "nulls"
    ELSE IF r.type = "last_alert" THEN r.state = "Error" /\ r.attributes = "alerts: []"
    ELSE r.state = "Error" /\ r.attributes = "{}"

\* The refresher call of this cycle returned a pair.
Refreshed(r) == r.resp # <<None, None>>

\* The steps of the login state machine, with the start of a new attempt
\* (the user form or the MFA form submitted again after a failure).
LoginTransitions ==
    {<<"INIT", "SRP_CHALLENGE_SENT">>,
     <<"SRP_CHALLENGE_SENT", "PASSWORD_VERIFIED">>,
     <<"SRP_CHALLENGE_SENT", "MFA_REQUIRED">>,
     <<"MFA_REQUIRED", "MFA_VERIFIED">>,
     <<"PASSWORD_VERIFIED", "AUTHENTICATED">>,
     <<"MFA_VERIFIED", "AUTHENTICATED">>,
     <<"FAILED", "INIT">>,
     <<"FAILED", "MFA_REQUIRED">>}
    \cup {<<st, "FAILED">> : st \in {"INIT", "SRP_CHALLENGE_SENT", "PASSWORD_VERIFIED",
                                      "MFA_REQUIRED", "MFA_VERIFIED"}}

\* The error kind of an MFA failure by the marker its text carries: the
\* provider's error code, or the words of an expiry or of an SMS quota.
MfaKind(msg) ==
    IF msg[1] = "CodeMismatchException" THEN "invalid_mfa_code"
    ELSE IF msg[1] = "ExpiredCodeException" \/ in_str("expired", str_lower(msg))
        THEN "mfa_code_expired"
    ELSE IF msg[1] = "UserLambdaValidationException" \/ sms_quota_in(str_upper(msg))
        THEN "sms_quota_exceeded"
    ELSE IF msg[1] \in {"TooManyRequestsException", "LimitExceededException"}
        THEN "too_many_requests"
    ELSE "mfa_failed"

\* The text holds one of the provider substrings the login step knows.
KnownLoginText(msg) ==
    \/ sms_quota_in(str_upper(msg))
    \/ \E code \in {"UserLambdaValidationException", "NotAuthorizedException",
                     "UserNotFoundException", "InvalidPasswordException",
                     "TooManyRequestsException", "LimitExceededException"} :
         in_str(code, msg)

\* a and r are tokens refreshes returned, but no refresh returned them together.
MixedPair(a, r) ==
    /\ \E p \in responses : p[1] = a
    /\ \E p \in responses : p[2] = r
    /\ <<a, r>> \notin responses

\* The state Home Assistant shows for the sensor: the state property, which
\* is the baby's name for the baby-info sensor and self._state for the others.
sensor_state(r) == IF r.type = "baby_info" THEN "baby_name" ELSE r.state

\* The cycle's fetch failed for good: every fetch of the cycle raised, or the
\* refresh did.
FailedForGood(r) ==
    \/ r.fetches > 0 /\ Len(r.errors) = r.fetches
    \/ r.rerr # NoError


\* The alerts of the device inside the lookback window that the vendor holds.
WindowAlerts == {a \in pg.timeline : a.device_id = TargetDevice}

\* The list holds n of the alerts of A, or all of them when A has fewer, and
\* none of those left out is newer than one it holds.
IsNewest(list, n, A) ==
    /\ Len(list) = min(n, Cardinality(A))
    /\ \A i \in 1..Len(list) :
         /\ \E a \in A : a.id = list[i].id /\ a.ts = list[i].ts
         /\ \A a \in A :
              (\A j \in 1..Len(list) : list[j].id # a.id) => list[i].ts >= a.ts

\* params as _normalize_alert is given it.
ParamsOf(a) == IF "params" \in DOMAIN a THEN a.params ELSE PyNone

\* The last k elements of a sequence.
last_of(seq, k) == SubSeq(seq, Len(seq) - min(k, Len(seq)) + 1, Len(seq))

\* The profile field of the camera entry parses to an object.
ProfileParses(camera) ==
    /\ ~IsException(profile_data(camera).exc)
    /\ ~IsException(baby_name(profile_data(camera).value).exc)

\* The item baby name -> device id of a camera entry whose profile parses.
ItemOf(camera) ==
    <<baby_name(profile_data(camera).value).value, get(camera, "device_id")>>

-----------------------------------------------------------------------------
(* C1: when the first fetch of a poll cycle fails with an authorization     *)
(* failure, the sensor, whatever its type, calls the Token Refresher        *)
(* exactly once and then retries the fetch exactly once; no cycle has more  *)
(* than one refresh or more than two fetches.                               *)
C1_OneRefreshOneRetry ==
    \A s \in Sensors :
        /\ sn[s].refreshes <= 1
        /\ sn[s].fetches <= 2
        /\ (sn[s].pc = "done" /\ sn[s].errors # <<>>
                /\ AuthorizationFailure(sn[s].errors[1]))
            => /\ sn[s].refreshes = 1
               /\ Refreshed(sn[s]) => sn[s].fetches = 2

(* C2: a camera-state sensor whose first fetch returns 401 and whose retry  *)
(* after the refresh returns 401 too ends the cycle with state "Error" and  *)
(* empty attributes, after two fetches and one refresh, no more.            *)
C2_RetryFailed ==
    \A s \in Sensors :
        /\ sn[s].type = "camera_state" =>
              /\ sn[s].fetches <= 2
              /\ sn[s].refreshes <= 1
        /\ (sn[s].type = "camera_state" /\ sn[s].pc = "done"
                /\ sn[s].errors = <<M401, M401>>)
            => /\ sn[s].state = "Error"
               /\ sn[s].attributes = "{}"
               /\ sn[s].fetches = 2
               /\ sn[s].refreshes = 1

C2_Witness ==
    \E s \in Sensors :
        /\ sn[s].type = "camera_state"
        /\ sn[s].pc = "done"
        /\ sn[s].errors = <<M401, M401>>
        /\ Refreshed(sn[s])

(* C3: no failure inside a sensor's poll cycle (loading the tokens, the     *)
(* fetch, the refresh, the image download, the cleanup) leaves              *)
(* async_update as an exception: the cycle returns normally.                *)
C3_NothingEscapes ==
    \A s \in Sensors : ~sn[s].escaped

\* A cycle whose first fetch was refused, whose refresh went through and
\* whose retry lost the connection has returned.
C3_Witness ==
    \E s \in Sensors :
        /\ sn[s].pc = "done"
        /\ Len(sn[s].errors) = 2
        /\ sn[s].errors[2] = MConnection
        /\ Refreshed(sn[s])
        /\ FailureState(sn[s])
        /\ ~sn[s].escaped

(* C4: every poll cycle reloads the tokens from the Token Store before its  *)
(* first fetch: with no other writer since the cycle began, the first fetch *)
(* uses the store's access token when the store holds one (so the one a     *)
(* sibling's refresh stored earlier), and the in-memory tokens are kept     *)
(* only for a token the store does not hold.                                *)
C4_ReloadBeforeFetch ==
    \A s \in Sensors :
        /\ (sn[s].pc = "fetch" /\ ~sn[s].interfered)
            => /\ sn[s].access = IF StoreAccess # None THEN StoreAccess ELSE entry[1]
               /\ sn[s].refresh = IF StoreRefresh # None THEN StoreRefresh ELSE entry[2]
        /\ (sn[s].fetches >= 1 /\ sn[s].refreshes = 0 /\ ~sn[s].interfered)
            => sn[s].tok1 = IF StoreAccess # None THEN StoreAccess ELSE entry[1]

\* The first fetch of a sensor went out with the access token another
\* sensor's refresh had stored.
C4_Witness ==
    \E s \in Sensors :
        /\ sn[s].fetches = 1
        /\ sn[s].refreshes = 0
        /\ ~sn[s].interfered
        /\ sn[s].tok1 = StoreAccess
        /\ sn[s].tok1 # entry[1]
        /\ \E p \in responses : p[1] = sn[s].tok1

(* C5: after a successful login the pair the login minted is the pair the   *)
(* Token Store holds and the one the first poll cycle fetches with, also    *)
(* when the store held the tokens of an earlier session.                    *)
C5_LoginPairUsed ==
    \A s \in Sensors :
        (sn[s].fetches >= 1 /\ responses = {})
            => /\ sn[s].tok1 = entry[1]
               /\ StoreAccess = entry[1]
               /\ StoreRefresh = entry[2]

(* C6: refresh_access_token_only sends the vendor the refresh token the     *)
(* Token Store holds at the call when it holds one, and the token its       *)
(* caller supplied only when the store holds none.                          *)
C6_StoredTokenSent ==
    [][\A s \in Sensors :
         (sn[s].pc = "rcall" /\ sn'[s].pc # "rcall")
            => sn'[s].sent = IF StoreRefresh # None THEN StoreRefresh
                             ELSE sn[s].refresh]_vars

\* A refresh was sent with the store's refresh token, which another sensor's
\* refresh had stored, not with the login's.
C6_Witness ==
    \E s \in Sensors :
        /\ sn[s].pc = "rsave_access"
        /\ sn[s].sent = StoreRefresh
        /\ sn[s].sent # entry[2]
        /\ \E p \in responses : p[2] = sn[s].sent

C8_RefreshRejected ==
    [][\A s \in Sensors :
         (sn[s].pc = "rcall" /\ sn'[s].rerr = M400)
            => /\ fs' = fs
               /\ StoreAccess' = StoreAccess
               /\ StoreRefresh' = StoreRefresh
               /\ entry' = entry
               /\ minted' = minted
               /\ sn'[s].pc = "done"
               /\ FailureState(sn'[s])
               /\ sn'[s].fetches = 1
               /\ sn'[s].refreshes = 1
               /\ sn'[s].access = sn[s].access
               /\ sn'[s].refresh = sn[s].refresh]_vars

\* A cycle ended by a rejected refresh, the store holding what it held.
C8_Witness ==
    \E s \in Sensors :
        /\ sn[s].pc = "done"
        /\ sn[s].rerr = M400
        /\ sn[s].fetches = 1
        /\ FailureState(sn[s])
        /\ StoreAccess = sn[s].tok1

(* C9: a refresh supersedes the stored access token and the stored refresh  *)
(* token together: under any interleaving of the sensors, neither the store *)
(* once the writes are through, nor a sensor that reloaded from it, holds   *)
(* the access token of one refresh with the refresh token of another.       *)
C9_PairAtomic ==
    /\ (\A s \in Sensors : sn[s].pc \notin {"rsave_access", "rsave_refresh", "xsave"})
        => ~MixedPair(StoreAccess, StoreRefresh)
    /\ \A s \in Sensors :
         sn[s].pc \in {"fetch", "rcall"} => ~MixedPair(sn[s].access, sn[s].refresh)

-----------------------------------------------------------------------------
C12_LoadNeverRaises ==
    op.name = "load" =>
        /\ op.result # Raised
        /\ (\/ fs[op.path] \in {Absent, Unreadable, Malformed, NotObject}
            \/ fs[op.path][1] # op.kind)
           => op.result = None

\* A load of a file that holds no JSON gave None.
C12_Witness ==
    /\ op.name = "load"
    /\ fs[op.path] = Malformed
    /\ op.result = None

(* C13: path resolution, for both kinds: the portable path when it is       *)
(* configured and exists; otherwise the legacy path when the legacy file    *)
(* exists; otherwise the portable path when it is configured; otherwise the *)
(* legacy path.                                                             *)
C13_PathResolution ==
    [][op'.name \in {"save", "load"} =>
         LET portable == IF op'.kind = "access_token" THEN ACCESS_TOKEN_FILE
                         ELSE REFRESH_TOKEN_FILE
             legacy == IF op'.kind = "access_token" THEN LEGACY_ACCESS_TOKEN_FILE
                       ELSE LEGACY_REFRESH_TOKEN_FILE
         IN  op'.path =
               IF portable # NoPath /\ fs[portable] # Absent THEN portable
               ELSE IF fs[legacy] # Absent THEN legacy
               ELSE IF portable # NoPath THEN portable
               ELSE legacy]_vars

\* A load resolved the legacy access path although a portable one is
\* configured, its file not being there.
C13_Witness ==
    /\ op.name = "load"
    /\ op.kind = "access_token"
    /\ ACCESS_TOKEN_FILE = PortableAccessPath
    /\ fs[PortableAccessPath] = Absent
    /\ op.path = LEGACY_ACCESS_TOKEN_FILE

(* C14: once a portable path is configured, every save of a token writes    *)
(* the portable path and never the legacy path, whatever files exist at the *)
(* two locations.                                                           *)
C14_SavesPortable ==
    (op.name = "save" /\ ACCESS_TOKEN_FILE # NoPath /\ REFRESH_TOKEN_FILE # NoPath)
        => op.path = IF op.kind = "access_token" THEN ACCESS_TOKEN_FILE
                     ELSE REFRESH_TOKEN_FILE

(* C11: a load never observes a partially written token file: at every      *)
(* moment each token file holds the complete previous document or a         *)
(* complete new one, when a writer dies between the temp write and the      *)
(* rename and when two threads save the same kind at the same time.         *)
C11_NeverPartial ==
    /\ \A kind \in Kinds :
         \E t \in {1} \cup NewTokens : fs[PathOf(kind, fs)] = json_dumps(kind, t)
    /\ op.name = "load" => op.result \in {1} \cup NewTokens

(* C16: respond_to_password_verifier returns an MFA Challenge (challenge    *)
(* name, session, username) exactly when the provider's answer holds a      *)
(* challenge name, and the authentication tokens exactly when it does not:  *)
(* never both, never neither; the answer is inspected, no exception caught. *)
C16_ChallengeOrTokens ==
    api.fn = "respond_to_password_verifier" =>
        /\ (api.out.challenge # Missing) = (api.ChallengeName # Missing)
        /\ (api.out.tokens # Missing) = (api.ChallengeName = Missing)
        /\ api.ChallengeName # Missing =>
              /\ api.out.challenge = api.ChallengeName
              /\ api.out.session = api.Session
              /\ api.out.username = api.username
        /\ api.ChallengeName = Missing =>
              api.out.tokens = api.AuthenticationResult

\* The answer held SOFTWARE_TOKEN_MFA and no parameters: a challenge came back.
C16_Witness ==
    /\ api.fn = "respond_to_password_verifier"
    /\ api.ChallengeName = "SOFTWARE_TOKEN_MFA"
    /\ api.ChallengeParameters = Missing
    /\ api.out.challenge = "SOFTWARE_TOKEN_MFA"
    /\ api.out.tokens = Missing

(* C17: respond_to_mfa_challenge submits the code under                     *)
(* SOFTWARE_TOKEN_MFA_CODE when the challenge kind is SOFTWARE_TOKEN_MFA    *)
(* and under SMS_MFA_CODE otherwise, the kind being SMS_MFA when none is    *)
(* given, and passes the session token and the username as they came.       *)
C17_MfaCodeField ==
    api.fn = "respond_to_mfa_challenge" =>
        /\ api.out.code_field =
              IF api.challenge_name = "SOFTWARE_TOKEN_MFA"
              THEN "SOFTWARE_TOKEN_MFA_CODE" ELSE "SMS_MFA_CODE"
        /\ api.out.code = api.mfa_code
        /\ api.out.ChallengeName =
              IF api.challenge_name = Missing THEN "SMS_MFA" ELSE api.challenge_name
        /\ api.out.Session = api.Session
        /\ api.out.USERNAME = api.username

\* A call without a challenge kind sent the code as an SMS code.
C17_Witness ==
    /\ api.fn = "respond_to_mfa_challenge"
    /\ api.challenge_name = Missing
    /\ api.out.ChallengeName = "SMS_MFA"
    /\ api.out.code_field = "SMS_MFA_CODE"
    /\ api.out.code = "654321"

C18_MfaRejected ==
    [][(flow.pc = "mfa_call" /\ flow'.error_str = MCodeMismatch)
          => /\ flow'.errors = "invalid_mfa_code"
             /\ flow'.form = "mfa"
             /\ flow'.state = "FAILED"
             /\ ~flow'.vendor_called
             /\ minted' = minted
             /\ flow'.access_token = None
             /\ flow'.refresh_token = None
             /\ fs' = fs
             /\ entry' = <<None, None>>]_vars

\* The code 000000 for a software-token challenge was rejected.
C18_Witness ==
    /\ flow.error_str = MCodeMismatch
    /\ flow.mfa_challenge = "SOFTWARE_TOKEN_MFA"
    /\ flow.mfa_code = "000000"
    /\ flow.errors = "invalid_mfa_code"
    /\ entry = <<None, None>>

(* C19: in the MFA step the error kind follows the provider's error text: a *)
(* code mismatch is the invalid code, an expired code or session the        *)
(* expiry, an SMS quota error the quota, request limiting the too-many      *)
(* -requests kind, anything else the generic MFA failure; the marker        *)
(* decides, whatever other words the message holds.                         *)
C19_MfaErrorKind ==
    (flow.form = "mfa" /\ flow.state = "FAILED")
        => flow.errors = MfaKind(flow.error_str)

(* C20: in the login step every failure is reported as exactly one kind of  *)
(* the closed set, and an error whose text holds none of the known provider *)
(* substrings is the generic failure, not the invalid-credentials kind.     *)
C20_LoginErrorKind ==
    (flow.form = "user" /\ flow.state = "FAILED")
        => /\ flow.errors \in {"auth_failed", "sms_quota_exceeded", "too_many_requests",
                               "unknown"}
           /\ ~KnownLoginText(flow.error_str) => flow.errors # "auth_failed"

(* C27: for every sensor type, a first fetch that fails with a provider     *)
(* "unauthorized" message, in any letter case and without the text 401, is  *)
(* an authorization failure: the cycle calls the Token Refresher and, when  *)
(* the refresh returned a pair, retries the fetch once.                     *)
C27_UnauthorizedRefreshes ==
    \A s \in Sensors :
        (sn[s].pc = "done" /\ sn[s].errors # <<>>
            /\ ~in_str("401", sn[s].errors[1])
            /\ in_str("unauthorized", str_lower(sn[s].errors[1])))
        => /\ sn[s].refreshes = 1
           /\ Refreshed(sn[s]) => sn[s].fetches = 2

(* C28: a polling error that is not an authorization failure, whatever URL  *)
(* or number its message holds, starts no token refresh and no retry: the   *)
(* cycle makes one fetch, leaves the Token Store to the other writers and   *)
(* ends in the failure state.                                               *)
C28_OtherErrorsNoRefresh ==
    \A s \in Sensors :
        (sn[s].errors # <<>> /\ ~AuthorizationFailure(sn[s].errors[1]))
        => /\ sn[s].refreshes = 0
           /\ sn[s].fetches = 1
           /\ sn[s].pc = "done"
           /\ FailureState(sn[s])

(* C29: for every sensor type, a poll cycle whose fetch fails for good (an  *)
(* error that is no authorization failure, a failed refresh, a failed       *)
(* retry) ends with the sensor's state being the error state.               *)
C29_ErrorState ==
    \A s \in Sensors :
        (sn[s].pc = "done" /\ FailedForGood(sn[s]))
        => sensor_state(sn[s]) = "Error"

(* C21: for every sequence of vendor batches, batches that bring an alert   *)
(* id again included, the list get_n_alerts_paged returns has at most n     *)
(* entries, holds each alert id at most once and is ordered by timestamp,   *)
(* newest first.                                                            *)
C21_AlertList ==
    pg.pc = "done" =>
        /\ Len(pg.result) <= pg.n
        /\ \A i, j \in 1..Len(pg.result) :
             /\ i # j => pg.result[i].id # pg.result[j].id
             /\ i < j => pg.result[i].ts >= pg.result[j].ts

\* Two alerts were returned, one of which came in two batches.
C21_Witness ==
    /\ pg.pc = "done"
    /\ pg.repeated
    /\ Len(pg.result) = 2
    /\ pg.result[1].ts > pg.result[2].ts

(* C22: get_n_alerts_paged ends whatever the vendor answers: it makes at    *)
(* most 100 timeline requests, and while no batch carries a timestamp above *)
(* the initial since the loop ends after the second batch at the latest,    *)
(* with the alerts collected so far returned.                               *)
C22_Terminates ==
    /\ pg.requests <= max_iters
    /\ pg.iters <= max_iters
    /\ pg.stalled =>
         /\ pg.iters <= 2
         /\ pg.iters = 2 => ~pg.seen_progress
    /\ pg.pc = "done" =>
         Len(pg.result) = min(pg.n, Len(pg.all_alerts_for_device))

\* The hundredth request was made and the call returned.
C22_Witness ==
    /\ pg.pc = "done"
    /\ pg.requests = max_iters

(* C23: when the vendor answers every request at cursor s with a non-empty  *)
(* batch of alerts with ts >= s as long as it holds such alerts, and paging *)
(* ends within the iteration cap, get_n_alerts_paged returns exactly the n  *)
(* newest alerts of the device in the lookback window: the cursor advance   *)
(* skips none.                                                              *)
C23_NewestN ==
    (pg.pc = "done" /\ pg.server = "honest" /\ pg.iters < max_iters)
    => IsNewest(pg.result, pg.n, WindowAlerts)

(* C24: every alert get_n_alerts_paged returns has the requested device id: *)
(* the records of other devices move the cursor and are never returned.     *)
C24_DeviceOnly ==
    /\ \A i \in 1..Len(pg.all_alerts_for_device) :
         pg.all_alerts_for_device[i].device_id = TargetDevice
    /\ \A i \in 1..Len(pg.result) : pg.result[i].device_id = TargetDevice

\* Alerts were returned after the newest record, one of another device, had
\* moved the cursor past every timestamp.
C24_Witness ==
    /\ pg.pc = "done"
    /\ pg.server = "honest"
    /\ pg.result # <<>>
    /\ pg.since_ts = MaxTs + 1
    /\ \A a \in pg.timeline : a.ts = MaxTs => a.device_id = OtherDevice

(* C25: alert normalization never raises and gives the nine fields whatever *)
(* the alert holds: params that is a string that parses as JSON becomes the *)
(* parsed value, params that is a string that does not parse stays that     *)
(* string, params that is no string stays as it is.                         *)
C25_NormalizeParams ==
    na.pc = "done" =>
        LET p == ParamsOf(na.a)
        IN  /\ DOMAIN na.out = NormalKeys
            /\ (isinstance_str(p) /\ json_loads(p[2]).exc = "none")
                   => na.out.params = json_loads(p[2]).value
            /\ (isinstance_str(p) /\ json_loads(p[2]).exc # "none")
                   => na.out.params = p
            /\ ~isinstance_str(p) => na.out.params = p

\* An alert whose params is not JSON was normalized.
C25_Witness ==
    /\ na.pc = "done"
    /\ ParamsOf(na.a) = PyStr("not json")
    /\ na.out.params = PyStr("not json")

C30_CameraMap ==
    cam.pc = "done" =>
        /\ \A i \in 1..Len(cam.profiles) :
             ProfileParses(cam.profiles[i]) => ItemOf(cam.profiles[i]) \in cam.device_map
        /\ \A item \in cam.device_map :
             \E i \in 1..Len(cam.profiles) :
                 ProfileParses(cam.profiles[i]) /\ item = ItemOf(cam.profiles[i])

\* C31: every request of a login attempt to the identity provider (InitiateAuth,
\* the PASSWORD_VERIFIER response, the MFA response) carries a SECRET_HASH made
\* from the USERNAME sent in that same request, the client id and the client
\* secret.
C31_SecretHash ==
    api.fn # "none" =>
        api.sent.SECRET_HASH =
            get_secret_hash(api.sent.USERNAME, CLIENT_ID, CLIENT_SECRET)

\* A PASSWORD_VERIFIER response was sent for the user the challenge names
\* user-2, with the hash made from that name.
C31_Witness ==
    /\ api.sent.kind = "PASSWORD_VERIFIER"
    /\ api.sent.USERNAME = "user-2"
    /\ api.sent.SECRET_HASH = get_secret_hash("user-2", CLIENT_ID, CLIENT_SECRET)

\* C32: all sensors that exist at the same time have pairwise distinct unique
\* ids; here the part about the subscription sensors: those of two different
\* config entries, set up for two different cameras, have different unique ids.
C32_SubscriptionIds ==
    \A i, j \in 1..Len(reg.sensors) :
        /\ reg.sensors[i].type = "subscription"
        /\ reg.sensors[j].type = "subscription"
        /\ reg.sensors[i].entry_id # reg.sensors[j].entry_id
        /\ reg.sensors[i].device_id # reg.sensors[j].device_id
        => unique_id(reg.sensors[i]) # unique_id(reg.sensors[j])

\* C33: get_n_alerts_paged stops fetching as soon as the dedup map of the
\* target device holds at least n alerts: no timeline request is made once
\* the map has n entries.
C33_StopsAtN ==
    [][pg'.requests > pg.requests => Len(pg.all_alerts_for_device) < pg.n]_vars

\* C34: within one call the since of every request after the first is the
\* greatest timestamp of the previous batch plus 1: when a batch has been gone
\* through and another request follows, the cursor is that batch's greatest
\* timestamp plus 1.
C34_Cursor ==
    [][pg.pc = "page" /\ pg'.pc = "loop" /\ loop_goes_on(pg')
         => pg'.since_ts = pg.ts_max + 1]_vars

\* C35: a record of the target device without an id field is skipped and
\* does not abort get_n_alerts_paged: the call never ends with the KeyError
\* of that record.
C35_MalformedSkipped == pg.error # "KeyError"

\* C36: an MFA challenge is consumed exactly once: over the code submissions
\* of one login flow, a submission after a rejected code included, no session
\* token is sent to the identity provider twice.
C36_SessionOnce ==
    \A i, j \in 1..Len(flow.mfa_sent) :
        i # j => flow.mfa_sent[i] # flow.mfa_sent[j]

\* C37: after a refresh inside a poll cycle the retry of the fetch uses the
\* access token that refresh returned, and when the cycle ends the sensor's
\* in-memory access and refresh tokens are the returned pair.
C37_RetryToken ==
    \A s \in Sensors :
        /\ sn[s].tok2 # None => sn[s].tok2 = sn[s].resp[1]
        /\ sn[s].pc = "done" /\ sn[s].resp # <<None, None>>
             => sn[s].access = sn[s].resp[1] /\ sn[s].refresh = sn[s].resp[2]

\* A cycle has ended after a refresh and a retry with the new access token,
\* which is not the token of the first fetch.
C37_Witness ==
    \E s \in Sensors :
        /\ sn[s].pc = "done"
        /\ sn[s].refreshes = 1
        /\ sn[s].fetches = 2
        /\ sn[s].tok2 = sn[s].resp[1]
        /\ sn[s].tok2 # sn[s].tok1
        /\ sn[s].access = sn[s].resp[1]
        /\ sn[s].refresh = sn[s].resp[2]

\* C38: after a poll cycle of the last-alert sensor every local image path
\* listed in the alerts attribute refers to a file that is in the image
\* directory after the cleanup, for every configured alerts_count.
C38_ListedImagesExist ==
    img.pc = "idle" =>
        \A i \in 1..Len(img.attributes) :
            img.attributes[i] # NoImage
                => \E k \in 1..Len(img.dir) : img.dir[k] = img.attributes[i]

\* C39: the image cleanup of one device's last-alert sensor deletes only
\* image files of that device: the files a camera with another device id has
\* written are the same after the cleanup as before, whatever the ids are.
C39_OtherDevicesUntouched ==
    [][img.pc = "alerts" /\ img'.pc = "idle"
         => \A device_id \in {OtherDevice, PrefixedDevice} :
              glob_own(img'.dir, device_id) = glob_own(img.dir, device_id)]_vars

\* C40: the blocking and the async paginator are equivalent: called with the
\* same device, n and initial since and given the same batches, they are at
\* the same place with the same since cursor after the same number of
\* requests, they end the same way, and they return the same list.
C40_Equivalent ==
    /\ apg.pc = pg.pc
    /\ apg.requests = pg.requests
    /\ apg.since_ts = pg.since_ts
    /\ apg.error = pg.error
    /\ apg.result = pg.result

\* Both have returned the same list of MaxN alerts after two requests or
\* more, the cursor having moved past the greatest timestamp.
C40_Witness ==
    /\ pg.pc = "done" /\ apg.pc = "done"
    /\ pg.requests >= 2 /\ apg.requests = pg.requests
    /\ pg.since_ts = MaxTs + 1 /\ apg.since_ts = MaxTs + 1
    /\ Len(pg.result) = MaxN
    /\ apg.result = pg.result

=============================================================================
